---- MODULE Spec2Model ----
(***************************************************************************)
(* Model of the content-service.  The rate limiter: the per-client token  *)
(* bucket (rateLimiter), the registry of buckets keyed by client address   *)
(* (rateLimiterStore), the background sweep (cleanup) and the middleware   *)
(* that calls getLimiter and then allow for every request.  The handler    *)
(* chain of the router, the JWT authentication and the article service     *)
(* with its repository follow.                                             *)
(*                                                                         *)
(* Time is a discrete clock.  One tick is half a refill interval, so that  *)
(* a call can observe an elapsed time that is not a whole number of        *)
(* intervals.  The capacity and the durations of the source are scaled     *)
(* down; they keep RateLimitRefill <= CleanupInterval < LimiterTTL, and a  *)
(* bucket idle for longer than LimiterTTL is refilled to its capacity by   *)
(* its next call, as in the source.                                        *)
(*                                                                         *)
(* The module holds five specifications over one set of variables:         *)
(*   Spec        the rate limiter under concurrent requests and the sweep; *)
(*   SpecFair    the same steps for one client address, under fair         *)
(*               scheduling;                                               *)
(*   SpecRate    the requests of one client address with every critical    *)
(*               section as one step, and the times of the admissions;     *)
(*   SpecHttp    one request at a time through the handler chain that main *)
(*               builds: rate limiter, CORS, JWT authentication, article   *)
(*               handler;                                                  *)
(*   SpecArticle the article service called by concurrent callers, every   *)
(*               repository call being one step.                           *)
(***************************************************************************)
EXTENDS Integers, FiniteSets, Sequences, TLC

\* ---------------------------------------------------------------- bounds
\* capacity of a bucket (RateLimitTokens = 100 in the source), scaled
RateLimitTokens == 2
\* ticks per token (RateLimitRefill = 100ms in the source), scaled
RateLimitRefill == 2
\* ticks between two sweeps (CleanupInterval = 10min in the source), scaled
CleanupInterval == 2
\* idle ticks after which a bucket is evicted (LimiterTTL = 30min), scaled
LimiterTTL == 3
\* the clock stops here
MaxTime == 4
\* total number of requests served
MaxRequests == 3

\* requests sent through the handler chain
MaxHttpRequests == 3
\* lifetime of a test token in ticks (24 * time.Hour in the source), scaled
TokenTTL == 3
\* ticks per second: jwt.TimePrecision is one second, time.Now() is finer
TicksPerSecond == 2
\* rows the articles table can hold
MaxArticles == 2
\* calls made to the article service
MaxCalls == 3
\* longest title (MaxTitleLength; max=255 in the request tags), scaled
MaxTitleLength == 2
\* requests of one client address whose admissions are counted
MaxRateRequests == 5
\* pagination: the page used when none is given, the page size used when
\* none is given, and the largest page size (10 and 100, scaled)
DefaultPage == 1
DefaultLimit == 1
MaxLimit == 2

\* request workers (one goroutine per inbound request) and client addresses
Procs == {"p1", "p2"}
Keys == {"k1", "k2"}
ProcRank == [p \in Procs |-> IF p = "p1" THEN 1 ELSE 2]

\* heap identities of the buckets; every request creates at most one
MaxBuckets == MaxRequests
Buckets == 1..MaxBuckets
NoBucket == 0
NoKey == "nokey"
None == "none"
Sweeper == "sweeper"

Min(a, b) == IF a < b THEN a ELSE b

VARIABLES
    clock,           \* time.Now()
    tickC,           \* the ticker's channel (capacity 1) holds a tick
    limiters,        \* rateLimiterStore.limiters : key -> bucket
    smu,             \* rateLimiterStore.mu : readers and writer
    nextBucket,      \* next heap identity newRateLimiter hands out
    tokens,          \* rateLimiter.tokens
    lastRefillTime,  \* rateLimiter.lastRefillTime
    lastAccessTime,  \* rateLimiter.lastAccessTime
    mu,              \* rateLimiter.mu : holder or None
    pc,              \* position of each request worker
    ip,              \* c.ClientIP() of the worker's request
    limiter,         \* local variable limiter of the middleware
    ok,              \* outcome of the test rl.tokens > 0
    spc,             \* position of the cleanup goroutine
    sweepNow,        \* local variable now of cleanup()
    sweepTodo,       \* keys the range loop has not visited yet
    requests,        \* number of requests started
    bucketKey,       \* history: key a bucket was created for
    createTime,      \* history: time a bucket was created
    evicted,         \* history: buckets deleted by a sweep
    epoch,           \* history: per bucket, tokens after the last refill
                     \*   (or creation), calls decided and allowed since
    refilled,        \* history: sum of tokensToAdd over a bucket's calls
    capLost,         \* history: a refill of the bucket was cut by the cap
    burst,           \* history: per key, latest call time with an allowed
                     \*   call and the number of allowed calls at that time
    admitted         \* history (SpecRate): per bucket and time, the number
                     \*   of calls allowed at that time

VARIABLES
    server,          \* "down" until main has built the router
    secret,          \* cfg.JWT.Secret
    issued,          \* the latest token printed by CreateTestToken
    hpc,             \* position of the request in the handler chain
    route,           \* method and route of the request
    ran,             \* handlers of the chain that ran for the request
    status,          \* status code written to the response (0: none)
    body,            \* "error" member of the response body
    ctx,             \* c.Keys: the value stored under UserIDKey
    authHeader,      \* the Authorization header the middleware has read
    parsed,          \* jwt.ParseWithClaims was called for the request
    handlerUser,     \* local variable userID of the article handler
    httpRequests,    \* number of requests received
    meta             \* the list response: data, meta and, for the
                     \*   properties, the arguments of repo.GetAll

VARIABLES
    repoKind,        \* the Repository behind the service: gorm or mock
    articles,        \* the rows of the articles table, by id
    nextID,          \* next primary key
    call,            \* per caller, the service call it is in
    calls,           \* number of service calls made
    deleted          \* history: ids whose DeleteArticle returned nil

httpVars == <<server, secret, issued, hpc, route, ran, status, body, ctx,
              authHeader, parsed, handlerUser, httpRequests, meta>>
articleVars == <<repoKind, articles, nextID, call, calls, deleted>>
limiterVars == <<clock, tickC, limiters, smu, nextBucket, tokens,
                 lastRefillTime, lastAccessTime, mu, pc, ip, limiter, ok,
                 spc, sweepNow, sweepTodo, requests, bucketKey, createTime,
                 evicted, epoch, refilled, capLost, burst, admitted>>

vars == <<httpVars, articleVars, clock, tickC, limiters, smu, nextBucket, tokens, lastRefillTime,
          lastAccessTime, mu, pc, ip, limiter, ok, spc, sweepNow,
          sweepTodo, requests, bucketKey, createTime, evicted, epoch,
          refilled, capLost, burst, admitted>>

bucketVars == <<tokens, lastRefillTime, lastAccessTime>>
storeVars == <<limiters, nextBucket>>
sweepVars == <<spc, sweepNow, sweepTodo>>
histVars == <<bucketKey, createTime, evicted, epoch, refilled, capLost, burst,
              admitted>>

Created == 1..(nextBucket - 1)

\* ------------------------------------------------------- pure operators
\* Each operator below is one expression of the source.  The definition
\* that precedes it is a faulty variant of the same expression (a missing
\* cap, a missing lock, an off-by-one comparison, the single global bucket
\* of the first version of the middleware); the properties are required to
\* reject the model in which the variant takes the operator's place.

\* newRateLimiter: tokens: maxTokens
NewTokensEmpty(maxTokens) == 0
NewTokens(maxTokens) == maxTokens

\* allow: tokensToAdd := int(elapsed / rl.refillRate)
TokensToAddCeil(elapsed, refillRate) == (elapsed + refillRate - 1) \div refillRate
TokensToAdd(elapsed, refillRate) == elapsed \div refillRate

\* allow: rl.tokens = min(rl.maxTokens, rl.tokens+tokensToAdd)
RefillUncapped(t, add, maxTokens) == t + add
Refill(t, add, maxTokens) == Min(maxTokens, t + add)

\* allow: rl.lastRefillTime = now, inside if tokensToAdd > 0
NextRefillTimeNever(last, t, add) == last
NextRefillTimeAlways(last, t, add) == t
NextRefillTime(last, t, add) == IF add > 0 THEN t ELSE last

\* allow: rl.lastAccessTime = now, before the refill and the test
AccessTimeOnAllow(last, t, allowed) == IF allowed THEN t ELSE last
AccessTime(last, t, allowed) == t

\* rl.mu.Lock() / limiter.mu.Lock() can be taken
MutexFreeNoLock(b) == TRUE
MutexFree(b) == mu[b] = None

\* allow: defer rl.mu.Unlock()
UnlockForgotten(m, b) == m
Unlock(m, b) == [m EXCEPT ![b] = None]

\* getLimiter: limiter, exists := s.limiters[ip]
LookupGlobal(m, k) ==
    IF \E j \in Keys : m[j] # NoBucket
    THEN m[CHOOSE j \in Keys : m[j] # NoBucket]
    ELSE NoBucket
Lookup(m, k) == m[k]

\* getLimiter: if !exists, evaluated under the write lock
MustCreateAlways(m, k) == TRUE
MustCreate(m, k) == Lookup(m, k) = NoBucket

\* cleanup: now.Sub(limiter.lastAccessTime) > LimiterTTL
ExpiredInclusive(t, lastAccess) == t - lastAccess >= LimiterTTL
Expired(t, lastAccess) == t - lastAccess > LimiterTTL

\* s.mu.RLock() and s.mu.Lock() can be taken (a reader enters when no
\* writer holds the lock, a writer when nobody does)
CanRLock == smu.writer = None
CanLockAmongReaders == smu.writer = None
CanLock == smu.writer = None /\ smu.readers = {}

\* the client address of the specifications that follow one address
RateKey == "k1"

\* the worker that takes the next request, and the addresses it may have
FirstIdle(p) == \A q \in Procs : pc[q] = "idle" => ProcRank[p] <= ProcRank[q]
KeyInOrder(k) ==
    \/ k = "k1"
    \/ \E q \in Procs : ip[q] = "k1"
    \/ \E b \in Created : bucketKey[b] = "k1"

\* ------------------------------------------------- strings and tokens
\* A string is a sequence of atoms.  An atom is a word (a run of
\* characters without a space), a single space, or the compact
\* serialization of a JWT (header, payload and signature; it holds no
\* space).
Word(w) == [w |-> w]
SP == Word(" ")
Bearer == Word("Bearer")
Users == 1..2
Secrets == {"s1", "s2"}
NoSecret == "nosecret"
NoToken == [none |-> TRUE]
HmacAlgs == {"HS256", "HS384", "HS512"}

\* jwt.NewNumericDate: the time truncated to jwt.TimePrecision
NumericDateCeil(t) ==
    ((t + TicksPerSecond - 1) \div TicksPerSecond) * TicksPerSecond
NumericDate(t) == (t \div TicksPerSecond) * TicksPerSecond

\* token.SignedString / the HMAC of the signing input under a key: a
\* value that only the same key, header and payload produce
Hmac(key, header, payload) ==
    [key |-> key, header |-> header, payload |-> payload]

\* CreateTestToken(userID, secret) called at time now
CreateTestToken(userID, sec, now) ==
    LET header == [alg |-> "HS256", typ |-> "JWT"]
        payload == [user_id |-> userID,
                    exp |-> NumericDate(now + TokenTTL),
                    iat |-> NumericDate(now),
                    nbf |-> NumericDate(now)]
    IN [header |-> header, payload |-> payload,
        sig |-> Hmac(sec, header, payload)]

\* a token of another issuer that holds the secret: no user_id claim
ForeignToken(sec, now) ==
    LET header == [alg |-> "HS256", typ |-> "JWT"]
        payload == [exp |-> NumericDate(now + TokenTTL),
                    nbf |-> NumericDate(now)]
    IN [header |-> header, payload |-> payload,
        sig |-> Hmac(sec, header, payload)]

\* a token whose user_id was rewritten, and one signed with an RSA key
Tampered(tok) ==
    [tok EXCEPT !.payload.user_id = IF @ = 1 THEN 2 ELSE 1]
SignedRS256(tok) ==
    LET header == [alg |-> "RS256", typ |-> "JWT"]
    IN [header |-> header, payload |-> tok.payload,
        sig |-> Hmac("rsa", header, tok.payload)]

\* strings.Split(s, " ")
RECURSIVE SplitFields(_)
SplitFields(s) ==
    IF \A i \in 1..Len(s) : s[i] # SP
    THEN IF s = <<>> THEN <<>> ELSE <<s>>
    ELSE LET i == CHOOSE j \in 1..Len(s) :
                      s[j] = SP /\ \A m \in 1..(j - 1) : s[m] # SP
             head == SubSeq(s, 1, i - 1)
         IN (IF head = <<>> THEN <<>> ELSE <<head>>)
            \o SplitFields(SubSeq(s, i + 1, Len(s)))
RECURSIVE Split(_)
Split(s) ==
    IF \A i \in 1..Len(s) : s[i] # SP
    THEN <<s>>
    ELSE LET i == CHOOSE j \in 1..Len(s) :
                      s[j] = SP /\ \A m \in 1..(j - 1) : s[m] # SP
         IN <<SubSeq(s, 1, i - 1)>> \o Split(SubSeq(s, i + 1, Len(s)))

\* jwt.ParseWithClaims: the string has the three segments of a JWT
IsJwt(s) == Len(s) = 1 /\ DOMAIN s[1] = {"header", "payload", "sig"}

\* the key function: if _, ok := token.Method.(*jwt.SigningMethodHMAC)
KeyFuncOK(alg) == alg \in HmacAlgs

\* the signature is the HMAC of the signing input under cfg.JWT.Secret
VerifyAnyKey(tok, sec) == tok.sig.header = tok.header
Verify(tok, sec) == tok.sig = Hmac(sec, tok.header, tok.payload)

\* the validator: exp and nbf, when present, against time.Now()
TimeValid(payload, now) ==
    /\ "exp" \in DOMAIN payload => now < payload.exp
    /\ "nbf" \in DOMAIN payload => now >= payload.nbf

\* Claims.UserID after decoding the payload: the zero value if absent
ClaimsUserID(payload) ==
    IF "user_id" \in DOMAIN payload THEN payload.user_id ELSE 0

\* jwt.ParseWithClaims(tokenString, claims, keyFunc)
ParseWithClaims(s, sec, now) ==
    IF ~IsJwt(s)
    THEN [err |-> TRUE, UserID |-> 0]
    ELSE LET tok == s[1] IN
         [err |-> \/ ~KeyFuncOK(tok.header.alg)
                  \/ ~Verify(tok, sec)
                  \/ ~TimeValid(tok.payload, now),
          UserID |-> ClaimsUserID(tok.payload)]

\* JWTAuthMiddleware: if claims.UserID == 0
UserIDMissingNever(userID) == FALSE
UserIDMissing(userID) == userID = 0

\* JWTAuthMiddleware on the header h: the status and error it writes (0
\* when it calls c.Next()), the value it stores under UserIDKey, and
\* whether it called the parser
Authenticate(h, sec, now) ==
    LET parts == Split(h)
        fail(msg, p) == [status |-> 401, body |-> msg, set |-> FALSE,
                         value |-> 0, parsed |-> p]
    IN IF h = <<>>
       THEN fail("authorization header is required", FALSE)
       ELSE IF Len(parts) # 2 \/ parts[1] # <<Bearer>>
       THEN fail("invalid authorization header format", FALSE)
       ELSE LET r == ParseWithClaims(parts[2], sec, now) IN
            IF r.err
            THEN fail("invalid or expired token", TRUE)
            ELSE IF UserIDMissing(r.UserID)
            THEN fail("user_id not found in token", TRUE)
            ELSE [status |-> 0, body |-> "", set |-> TRUE,
                  value |-> r.UserID, parsed |-> TRUE]

\* GetUserID: the value stored under UserIDKey and whether it exists
GetUserID(c) ==
    IF c.exists THEN [userID |-> c.value, err |-> FALSE]
    ELSE [userID |-> 0, err |-> TRUE]

\* ------------------------------------------------------ article service
\* An article is its owner, title and content; a string is a sequence of
\* characters; a *string is the empty sequence (nil) or a one-element
\* sequence holding the string.  An error is the set of the sentinel
\* errors it wraps (errors.Is is membership), nil is the empty set.
Callers == {"c1", "c2"}
ArticleIDs == 1..MaxArticles
NoArticle == [missing |-> TRUE]
NilPtr == <<>>
Ptr(v) == <<v>>
LongTitle == [i \in 1..(MaxTitleLength + 1) |-> "a"]
\* the fields of the requests that create an article, and of those that
\* update one
TitleStrings == {<<>>, <<"a">>, LongTitle}
ContentStrings == {<<>>, <<"c">>}
TitlePtrs == {NilPtr, Ptr(<<>>), Ptr(<<"b">>), Ptr(LongTitle)}
ContentPtrs == {NilPtr, Ptr(<<>>), Ptr(<<"d">>)}
CallerRank == [p \in Callers |-> IF p = "c1" THEN 1 ELSE 2]
NoErr == {}
ErrNotFound == {"ErrNotFound"}
ErrForbidden == {"ErrForbidden"}
ErrValidation == {"ErrValidation"}
ErrInternal == {"ErrInternal"}

\* Repository.GetByID: the row, or ErrNotFound
GetByID(store, id) ==
    IF id \in DOMAIN store /\ store[id] # NoArticle
    THEN [err |-> NoErr, article |-> store[id]]
    ELSE [err |-> ErrNotFound, article |-> NoArticle]

\* Repository.Create: the row is stored under the next primary key
RepoCreate(store, id, article) == [store EXCEPT ![id] = article]

\* Repository.Update: ErrNotFound when no row is affected
RepoUpdateReplace(store, id, updates) ==
    IF id \notin DOMAIN store \/ store[id] = NoArticle
    THEN [err |-> ErrNotFound, store |-> store]
    ELSE [err |-> NoErr,
          store |-> [store EXCEPT ![id] =
                       [UserID |-> 0,
                        Title |-> IF "title" \in DOMAIN updates
                                  THEN updates["title"] ELSE <<>>,
                        Content |-> IF "content" \in DOMAIN updates
                                    THEN updates["content"] ELSE <<>>]]]
RepoUpdate(store, id, updates) ==
    IF id \notin DOMAIN store \/ store[id] = NoArticle
    THEN [err |-> ErrNotFound, store |-> store]
    ELSE [err |-> NoErr,
          store |-> [store EXCEPT ![id] =
                       [UserID |-> @.UserID,
                        Title |-> IF "title" \in DOMAIN updates
                                  THEN updates["title"] ELSE @.Title,
                        Content |-> IF "content" \in DOMAIN updates
                                    THEN updates["content"]
                                    ELSE @.Content]]]

\* Repository.Delete: ErrNotFound when no row is affected
RepoDeleteKeep(store, id) ==
    IF id \notin DOMAIN store \/ store[id] = NoArticle
    THEN [err |-> ErrNotFound, store |-> store]
    ELSE [err |-> NoErr, store |-> store]
RepoDelete(store, id) ==
    IF id \notin DOMAIN store \/ store[id] = NoArticle
    THEN [err |-> ErrNotFound, store |-> store]
    ELSE [err |-> NoErr, store |-> [store EXCEPT ![id] = NoArticle]]

\* UpdateArticle, DeleteArticle: if article.UserID != userID
OwnsAny(article, userID) == TRUE
Owns(article, userID) == article.UserID = userID

\* CreateArticle: the checks before the article is built
CreateCheckNoLength(userID, title, content) ==
    IF userID = 0 THEN ErrValidation
    ELSE IF title = <<>> THEN ErrValidation
    ELSE IF content = <<>> THEN ErrValidation
    ELSE NoErr
CreateCheck(userID, title, content) ==
    IF userID = 0 THEN ErrValidation
    ELSE IF title = <<>> THEN ErrValidation
    ELSE IF Len(title) > MaxTitleLength THEN ErrValidation
    ELSE IF content = <<>> THEN ErrValidation
    ELSE NoErr

\* UpdateArticle between GetByID and repo.Update: the error returned (or
\* nil), the updates map, and the fetched article as the assignments
\* article.Title = *title and article.Content = *content have left it
\* when the function returns or calls repo.Update
UpdatePlanValidateFirst(a, userID, title, content) ==
    LET none == [x \in {} |-> <<>>]
        a1 == IF title # NilPtr THEN [a EXCEPT !.Title = title[1]] ELSE a
        u1 == IF title # NilPtr THEN [x \in {"title"} |-> title[1]]
              ELSE none
        a2 == IF content # NilPtr THEN [a1 EXCEPT !.Content = content[1]]
              ELSE a1
        u2 == IF content # NilPtr
              THEN [x \in DOMAIN u1 \cup {"content"} |->
                      IF x = "content" THEN content[1] ELSE u1[x]]
              ELSE u1
    IN IF title # NilPtr /\ title[1] = <<>>
       THEN [err |-> ErrValidation, updates |-> none, article |-> a]
       ELSE IF title # NilPtr /\ Len(title[1]) > MaxTitleLength
       THEN [err |-> ErrValidation, updates |-> none, article |-> a]
       ELSE IF content # NilPtr /\ content[1] = <<>>
       THEN [err |-> ErrValidation, updates |-> u1, article |-> a1]
       ELSE IF DOMAIN u2 = {}
       THEN [err |-> ErrValidation, updates |-> u2, article |-> a2]
       ELSE IF ~Owns(a, userID)
       THEN [err |-> ErrForbidden, updates |-> none, article |-> a]
       ELSE [err |-> NoErr, updates |-> u2, article |-> a2]
UpdatePlan(a, userID, title, content) ==
    LET none == [x \in {} |-> <<>>]
        a1 == IF title # NilPtr THEN [a EXCEPT !.Title = title[1]] ELSE a
        u1 == IF title # NilPtr THEN [x \in {"title"} |-> title[1]]
              ELSE none
        a2 == IF content # NilPtr THEN [a1 EXCEPT !.Content = content[1]]
              ELSE a1
        u2 == IF content # NilPtr
              THEN [x \in DOMAIN u1 \cup {"content"} |->
                      IF x = "content" THEN content[1] ELSE u1[x]]
              ELSE u1
    IN IF ~Owns(a, userID)
       THEN [err |-> ErrForbidden, updates |-> none, article |-> a]
       ELSE IF title # NilPtr /\ title[1] = <<>>
       THEN [err |-> ErrValidation, updates |-> none, article |-> a]
       ELSE IF title # NilPtr /\ Len(title[1]) > MaxTitleLength
       THEN [err |-> ErrValidation, updates |-> none, article |-> a]
       ELSE IF content # NilPtr /\ content[1] = <<>>
       THEN [err |-> ErrValidation, updates |-> u1, article |-> a1]
       ELSE IF DOMAIN u2 = {}
       THEN [err |-> ErrValidation, updates |-> u2, article |-> a2]
       ELSE [err |-> NoErr, updates |-> u2, article |-> a2]

\* articleService.GetAllArticles: the page and the limit handed to the
\* repository
PageOrDefault(page) == IF page < 1 THEN DefaultPage ELSE page
LimitOrDefaultNoMax(limit) == IF limit < 1 THEN DefaultLimit ELSE limit
LimitOrDefault(limit) ==
    IF limit < 1 \/ limit > MaxLimit THEN DefaultLimit ELSE limit

\* Repository.GetAll: Count, the number of rows
Count(store) == Cardinality({id \in DOMAIN store : store[id] # NoArticle})

\* Repository.GetAll: the ids of the rows in the orders the query can
\* return them: newest first with gorm (ids grow with created_at), the
\* order of a range over the map with mockRepository
Orders(kind, store) ==
    LET ids == {id \in DOMAIN store : store[id] # NoArticle}
        n == Cardinality(ids)
        perms == {f \in [1..n -> ids] :
                    \A i, j \in 1..n : f[i] = f[j] => i = j}
    IN IF kind = "mock" THEN perms
       ELSE {f \in perms : \A i, j \in 1..n : i < j => f[i] > f[j]}

\* Repository.GetAll: offset := (page - 1) * limit, then at most limit
\* rows from the offset on
PageOf(rows, page, limit) ==
    LET offset == (page - 1) * limit
    IN SubSeq(rows, offset + 1, Min(offset + limit, Len(rows)))

\* the part of a call record that is about a list call: the page and the
\* limit asked for, those handed to the repository, and the result
NoList == [none |-> TRUE]
ListCall(page, limit, total, items) ==
    [page |-> page, limit |-> limit,
     repoPage |-> PageOrDefault(page), repoLimit |-> LimitOrDefault(limit),
     total |-> total, items |-> items]

\* strconv.Atoi on the characters of a query value: an optional sign and
\* decimal digits, an error otherwise
DigitChars == <<"0", "1", "2", "3", "4", "5", "6", "7", "8", "9">>
IsDigit(ch) == \E d \in 1..10 : DigitChars[d] = ch
DigitValue(ch) == (CHOOSE d \in 1..10 : DigitChars[d] = ch) - 1
RECURSIVE NatOf(_)
NatOf(ds) ==
    IF ds = <<>> THEN 0
    ELSE 10 * NatOf(SubSeq(ds, 1, Len(ds) - 1)) + DigitValue(ds[Len(ds)])
Atoi(str) ==
    LET signed == str # <<>> /\ str[1] \in {"-", "+"}
        ds == IF signed THEN Tail(str) ELSE str
    IN IF ds = <<>> \/ \E i \in 1..Len(ds) : ~IsDigit(ds[i])
       THEN [err |-> TRUE, n |-> 0]
       ELSE [err |-> FALSE,
             n |-> IF str[1] = "-" THEN 0 - NatOf(ds) ELSE NatOf(ds)]
\* the decimal form of a number below 10
Itoa(n) == <<DigitChars[n + 1]>>

\* Handler.GetAllArticles: the page and the limit taken from the query
\* (c.Query gives "" for an absent parameter)
QueryOr(default, str) ==
    IF str # <<>> /\ ~Atoi(str).err /\ Atoi(str).n > 0
    THEN Atoi(str).n ELSE default

\* Handler.GetAllArticles: totalPages
TotalPages(total, limit) == (total + limit - 1) \div limit

\* no list response
NoMeta == [none |-> TRUE]

\* the store after the assignments to the fetched article: gorm's First
\* fills a fresh struct, mockRepository.GetByID returns the stored pointer
Aliased(kind, store, id, article) ==
    IF kind = "mock" THEN [store EXCEPT ![id] = article] ELSE store

\* the record of a caller that is in no call
IdleCall == [pc |-> "idle", op |-> "none", userID |-> 0, id |-> 0,
             title |-> <<>>, content |-> <<>>, list |-> NoList,
             updates |-> <<>>, err |-> NoErr, found |-> FALSE,
             owner |-> 0]

\* handleError: the statuses the range over errorToStatus can write
ErrorToStatusHidden(target) ==
    CASE target = "ErrNotFound" -> 404
      [] target = "ErrForbidden" -> 404
      [] target = "ErrValidation" -> 400
      [] OTHER -> 0
ErrorToStatus(target) ==
    CASE target = "ErrNotFound" -> 404
      [] target = "ErrForbidden" -> 403
      [] target = "ErrValidation" -> 400
      [] OTHER -> 0
HandleError(err) ==
    IF \E t \in err : ErrorToStatus(t) # 0
    THEN {ErrorToStatus(t) : t \in {x \in err : ErrorToStatus(x) # 0}}
    ELSE {500}

\* ------------------------------------------------------------------ Init
\* the article service before NewService
InitArticle ==
    /\ repoKind = None
    /\ articles = [id \in ArticleIDs |-> NoArticle]
    /\ nextID = 1
    /\ call = [p \in Callers |-> IdleCall]
    /\ calls = 0
    /\ deleted = {}

\* the process before main has built the router
InitHttp ==
    /\ server = "down"
    /\ secret = NoSecret
    /\ issued = NoToken
    /\ hpc = "idle"
    /\ route = "none"
    /\ ran = <<>>
    /\ status = 0
    /\ body = ""
    /\ ctx = [exists |-> FALSE, value |-> 0]
    /\ authHeader = <<>>
    /\ parsed = FALSE
    /\ handlerUser = 0
    /\ httpRequests = 0
    /\ meta = NoMeta

Init ==
    /\ clock = 0
    /\ tickC = FALSE
    /\ limiters = [k \in Keys |-> NoBucket]
    /\ smu = [readers |-> {}, writer |-> None]
    /\ nextBucket = 1
    /\ tokens = [b \in Buckets |-> 0]
    /\ lastRefillTime = [b \in Buckets |-> 0]
    /\ lastAccessTime = [b \in Buckets |-> 0]
    /\ mu = [b \in Buckets |-> None]
    /\ pc = [p \in Procs |-> "idle"]
    /\ ip = [p \in Procs |-> NoKey]
    /\ limiter = [p \in Procs |-> NoBucket]
    /\ ok = [p \in Procs |-> FALSE]
    /\ spc = "wait"
    /\ sweepNow = 0
    /\ sweepTodo = {}
    /\ requests = 0
    /\ bucketKey = [b \in Buckets |-> NoKey]
    /\ createTime = [b \in Buckets |-> 0]
    /\ evicted = {}
    /\ epoch = [b \in Buckets |-> [tokens |-> 0, calls |-> 0, allowed |-> 0]]
    /\ refilled = [b \in Buckets |-> 0]
    /\ capLost = [b \in Buckets |-> FALSE]
    /\ burst = [k \in Keys |-> [time |-> 0, count |-> 0]]
    /\ admitted = [b \in Buckets |-> [t \in 0..MaxTime |-> 0]]
    /\ InitHttp
    /\ InitArticle

\* ---------------------------------------------------------------- clock
\* Time passes; the ticker drops a tick into its channel every
\* CleanupInterval (a tick is lost when the channel is full).
Tick ==
    /\ clock < MaxTime
    /\ clock' = clock + 1
    /\ tickC' = (tickC \/ (clock + 1) % CleanupInterval = 0)
    /\ UNCHANGED <<httpVars, articleVars>>
    /\ UNCHANGED <<limiters, smu, nextBucket, tokens, lastRefillTime,
                   lastAccessTime, mu, pc, ip, limiter, ok, spc,
                   sweepNow, sweepTodo, requests, bucketKey, createTime,
                   evicted, epoch, refilled, capLost, burst, admitted>>

\* ------------------------------------------------- request: getLimiter
\* RateLimitMiddleware: ip := c.ClientIP(); getLimiter: s.mu.RLock().
\* Workers and client addresses are interchangeable: a new request is
\* taken by the first idle worker, and the second address is used only
\* once the first one has been.
RLock(p, k) ==
    /\ pc[p] = "idle"
    /\ requests < MaxRequests
    /\ FirstIdle(p)
    /\ KeyInOrder(k)
    /\ CanRLock
    /\ requests' = requests + 1
    /\ ip' = [ip EXCEPT ![p] = k]
    /\ smu' = [smu EXCEPT !.readers = @ \cup {p}]
    /\ pc' = [pc EXCEPT ![p] = "rlocked"]
    /\ UNCHANGED <<httpVars, articleVars>>
    /\ UNCHANGED <<clock, tickC, storeVars, bucketVars, mu, limiter, ok,
                   sweepVars, histVars>>

\* getLimiter: limiter, exists := s.limiters[ip]; s.mu.RUnlock();
\* if exists { return limiter }
RLookup(p) ==
    /\ pc[p] = "rlocked"
    /\ smu' = [smu EXCEPT !.readers = @ \ {p}]
    /\ LET l == Lookup(limiters, ip[p]) IN
         IF l # NoBucket
         THEN /\ limiter' = [limiter EXCEPT ![p] = l]
              /\ pc' = [pc EXCEPT ![p] = "allow"]
         ELSE /\ limiter' = limiter
              /\ pc' = [pc EXCEPT ![p] = "wlock"]
    /\ UNCHANGED <<httpVars, articleVars>>
    /\ UNCHANGED <<clock, tickC, storeVars, bucketVars, mu, ip, ok,
                   sweepVars, requests, histVars>>

\* getLimiter: s.mu.Lock(); second lookup under the write lock; if
\* !exists, a new bucket (newRateLimiter) is stored; s.mu.Unlock();
\* return limiter
Create(p) ==
    /\ pc[p] = "wlock"
    /\ CanLock
    /\ pc' = [pc EXCEPT ![p] = "allow"]
    /\ IF MustCreate(limiters, ip[p])
       THEN LET b == nextBucket IN
            /\ nextBucket' = nextBucket + 1
            /\ limiters' = [limiters EXCEPT ![ip[p]] = b]
            /\ limiter' = [limiter EXCEPT ![p] = b]
            /\ tokens' = [tokens EXCEPT ![b] = NewTokens(RateLimitTokens)]
            /\ lastRefillTime' = [lastRefillTime EXCEPT ![b] = clock]
            /\ lastAccessTime' = [lastAccessTime EXCEPT ![b] = clock]
            /\ bucketKey' = [bucketKey EXCEPT ![b] = ip[p]]
            /\ createTime' = [createTime EXCEPT ![b] = clock]
            /\ epoch' = [epoch EXCEPT ![b] =
                           [tokens |-> NewTokens(RateLimitTokens),
                            calls |-> 0, allowed |-> 0]]
       ELSE /\ limiter' = [limiter EXCEPT ![p] = Lookup(limiters, ip[p])]
            /\ UNCHANGED <<storeVars, bucketVars, bucketKey, createTime,
                           epoch>>
    /\ UNCHANGED <<httpVars, articleVars>>
    /\ UNCHANGED <<clock, tickC, smu, mu, ip, ok, sweepVars, requests,
                   evicted, refilled, capLost, burst, admitted>>

\* ------------------------------------------------------ request: allow
\* allow: rl.mu.Lock(); now := time.Now(); rl.lastAccessTime = now;
\* elapsed := now.Sub(rl.lastRefillTime); tokensToAdd := ...;
\* if tokensToAdd > 0 { rl.tokens = min(...); rl.lastRefillTime = now };
\* the test rl.tokens > 0 is evaluated
Allow(p) ==
    /\ pc[p] = "allow"
    /\ LET b == limiter[p]
           k == ip[p]
           elapsed == clock - lastRefillTime[b]
           tokensToAdd == TokensToAdd(elapsed, RateLimitRefill)
           t == IF tokensToAdd > 0
                THEN Refill(tokens[b], tokensToAdd, RateLimitTokens)
                ELSE tokens[b]
           res == t > 0
           e == IF tokensToAdd > 0
                THEN [tokens |-> t, calls |-> 0, allowed |-> 0]
                ELSE epoch[b]
       IN
       /\ MutexFree(b)
       /\ mu' = [mu EXCEPT ![b] = p]
       /\ lastAccessTime' = [lastAccessTime EXCEPT ![b] =
                               AccessTime(@, clock, res)]
       /\ tokens' = [tokens EXCEPT ![b] = t]
       /\ lastRefillTime' = [lastRefillTime EXCEPT ![b] =
                               NextRefillTime(@, clock, tokensToAdd)]
       /\ ok' = [ok EXCEPT ![p] = res]
       /\ epoch' = [epoch EXCEPT ![b] =
                      [tokens |-> e.tokens, calls |-> e.calls + 1,
                       allowed |-> IF res THEN e.allowed + 1 ELSE e.allowed]]
       /\ refilled' = [refilled EXCEPT ![b] = @ + tokensToAdd]
       /\ capLost' = [capLost EXCEPT ![b] =
                        @ \/ tokens[b] + tokensToAdd > RateLimitTokens]
       /\ burst' = IF ~res THEN burst
                   ELSE IF clock = burst[k].time
                   THEN [burst EXCEPT ![k].count = @ + 1]
                   ELSE [burst EXCEPT ![k] = [time |-> clock, count |-> 1]]
    /\ pc' = [pc EXCEPT ![p] = "consume"]
    /\ UNCHANGED <<httpVars, articleVars>>
    /\ UNCHANGED <<clock, tickC, storeVars, smu, ip, limiter, sweepVars,
                   requests, bucketKey, createTime, evicted, admitted>>

\* allow: { rl.tokens--; return true } / return false; the deferred
\* rl.mu.Unlock(); the middleware answers 429 or calls c.Next()
Consume(p) ==
    /\ pc[p] = "consume"
    /\ LET b == limiter[p] IN
       /\ tokens' = [tokens EXCEPT ![b] = IF ok[p] THEN @ - 1 ELSE @]
       /\ mu' = Unlock(mu, b)
    /\ pc' = [pc EXCEPT ![p] = "idle"]
    /\ limiter' = [limiter EXCEPT ![p] = NoBucket]
    /\ ok' = [ok EXCEPT ![p] = FALSE]
    /\ ip' = [ip EXCEPT ![p] = NoKey]
    /\ UNCHANGED <<httpVars, articleVars>>
    /\ UNCHANGED <<clock, tickC, storeVars, smu, lastRefillTime,
                   lastAccessTime, sweepVars, requests, histVars>>

\* --------------------------------------------------------------- cleanup
\* cleanup: a tick is received; s.mu.Lock(); now := time.Now(); the range
\* loop starts over the keys of the map
SweepStart ==
    /\ spc = "wait"
    /\ tickC
    /\ CanLock
    /\ tickC' = FALSE
    /\ smu' = [smu EXCEPT !.writer = Sweeper]
    /\ sweepNow' = clock
    /\ sweepTodo' = {k \in Keys : limiters[k] # NoBucket}
    /\ spc' = "scan"
    /\ UNCHANGED <<httpVars, articleVars>>
    /\ UNCHANGED <<clock, storeVars, bucketVars, mu, pc, ip, limiter,
                   ok, requests, histVars>>

\* cleanup: one iteration of the range loop: limiter.mu.Lock(); the entry
\* is deleted if it is idle for longer than the TTL; limiter.mu.Unlock()
SweepVisit(k) ==
    /\ spc = "scan"
    /\ k \in sweepTodo
    /\ LET b == limiters[k] IN
       /\ MutexFree(b)
       /\ IF Expired(sweepNow, lastAccessTime[b])
          THEN /\ limiters' = [limiters EXCEPT ![k] = NoBucket]
               /\ evicted' = evicted \cup {b}
          ELSE UNCHANGED <<limiters, evicted>>
    /\ sweepTodo' = sweepTodo \ {k}
    /\ UNCHANGED <<httpVars, articleVars>>
    /\ UNCHANGED <<clock, tickC, smu, nextBucket, bucketVars, mu, pc, ip,
                   limiter, ok, spc, sweepNow, requests, bucketKey,
                   createTime, epoch, refilled, capLost, burst, admitted>>

\* cleanup: the range loop is over; s.mu.Unlock()
SweepEnd ==
    /\ spc = "scan"
    /\ sweepTodo = {}
    /\ smu' = [smu EXCEPT !.writer = None]
    /\ spc' = "wait"
    /\ sweepNow' = 0
    /\ UNCHANGED <<httpVars, articleVars>>
    /\ UNCHANGED <<clock, tickC, storeVars, bucketVars, mu, pc, ip, limiter,
                   ok, sweepTodo, requests, histVars>>

\* ------------------------------------------------------------------ Next
Next ==
    \/ Tick
    \/ \E p \in Procs, k \in Keys : RLock(p, k)
    \/ \E p \in Procs : RLookup(p)
    \/ \E p \in Procs : Create(p)
    \/ \E p \in Procs : Allow(p)
    \/ \E p \in Procs : Consume(p)
    \/ SweepStart
    \/ \E k \in Keys : SweepVisit(k)
    \/ SweepEnd

Spec == Init /\ [][Next]_vars

\* The Go scheduler runs every runnable goroutine, and a goroutine that
\* waits for a sync.Mutex or a sync.RWMutex gets it once it stays free:
\* each step of a request that has started, and each step of a sweep that
\* has started, is taken if it stays possible.  Nothing obliges requests
\* to arrive, time to pass or a sweep to start.
Fairness ==
    /\ \A p \in Procs :
         /\ WF_vars(RLookup(p))
         /\ WF_vars(Create(p))
         /\ WF_vars(Allow(p))
         /\ WF_vars(Consume(p))
    /\ WF_vars(\E k \in Keys : SweepVisit(k))
    /\ WF_vars(SweepEnd)

\* the workers and the sweep with the requests of one client address
NextFair ==
    \/ Tick
    \/ \E p \in Procs : RLock(p, RateKey)
    \/ \E p \in Procs : RLookup(p)
    \/ \E p \in Procs : Create(p)
    \/ \E p \in Procs : Allow(p)
    \/ \E p \in Procs : Consume(p)
    \/ SweepStart
    \/ \E k \in Keys : SweepVisit(k)
    \/ SweepEnd

SpecFair == Init /\ [][NextFair]_vars /\ Fairness

\* ------------------------------------------------------ admission rate
\* The requests of one client address with each critical section as one
\* step: getLimiter (the registry lock is held from the lookup to the
\* return), allow (the bucket mutex is held from the refill to the
\* decrement) and the sweep (the registry lock is held for the whole
\* loop).  A worker between the two steps holds the bucket it was given.
\* getLimiter(ip): the bucket of the key, created when there is none
GetLimiter(p) ==
    /\ pc[p] = "idle"
    /\ FirstIdle(p)
    /\ requests < MaxRateRequests
    /\ requests' = requests + 1
    /\ ip' = [ip EXCEPT ![p] = RateKey]
    /\ pc' = [pc EXCEPT ![p] = "allow"]
    /\ IF MustCreate(limiters, RateKey)
       THEN LET b == nextBucket IN
            /\ b <= MaxBuckets
            /\ nextBucket' = nextBucket + 1
            /\ limiters' = [limiters EXCEPT ![RateKey] = b]
            /\ limiter' = [limiter EXCEPT ![p] = b]
            /\ tokens' = [tokens EXCEPT ![b] = NewTokens(RateLimitTokens)]
            /\ lastRefillTime' = [lastRefillTime EXCEPT ![b] = clock]
            /\ lastAccessTime' = [lastAccessTime EXCEPT ![b] = clock]
            /\ bucketKey' = [bucketKey EXCEPT ![b] = RateKey]
            /\ createTime' = [createTime EXCEPT ![b] = clock]
       ELSE /\ limiter' = [limiter EXCEPT ![p] = Lookup(limiters, RateKey)]
            /\ UNCHANGED <<storeVars, bucketVars, bucketKey, createTime>>
    /\ UNCHANGED <<httpVars, articleVars>>
    /\ UNCHANGED <<clock, tickC, smu, mu, ok, sweepVars, evicted, epoch,
                   refilled, capLost, burst, admitted>>

\* limiter.allow() from Lock to Unlock, and the end of the request
AllowCall(p) ==
    /\ pc[p] = "allow"
    /\ LET b == limiter[p]
           tokensToAdd == TokensToAdd(clock - lastRefillTime[b],
                                      RateLimitRefill)
           t == IF tokensToAdd > 0
                THEN Refill(tokens[b], tokensToAdd, RateLimitTokens)
                ELSE tokens[b]
           res == t > 0
       IN
       /\ lastAccessTime' = [lastAccessTime EXCEPT ![b] =
                               AccessTime(@, clock, res)]
       /\ lastRefillTime' = [lastRefillTime EXCEPT ![b] =
                               NextRefillTime(@, clock, tokensToAdd)]
       /\ tokens' = [tokens EXCEPT ![b] = IF res THEN t - 1 ELSE t]
       /\ admitted' = IF res
                      THEN [admitted EXCEPT ![b][clock] = @ + 1]
                      ELSE admitted
    /\ pc' = [pc EXCEPT ![p] = "idle"]
    /\ limiter' = [limiter EXCEPT ![p] = NoBucket]
    /\ ip' = [ip EXCEPT ![p] = NoKey]
    /\ UNCHANGED <<httpVars, articleVars>>
    /\ UNCHANGED <<clock, tickC, storeVars, smu, mu, ok, sweepVars,
                   requests, bucketKey, createTime, evicted, epoch,
                   refilled, capLost, burst>>

\* cleanup from the tick to s.mu.Unlock(): every entry idle for longer
\* than the TTL is deleted
Cleanup ==
    /\ tickC
    /\ tickC' = FALSE
    /\ LET gone == {k \in Keys : /\ limiters[k] # NoBucket
                                 /\ Expired(clock,
                                            lastAccessTime[limiters[k]])}
       IN /\ limiters' = [k \in Keys |->
                            IF k \in gone THEN NoBucket ELSE limiters[k]]
          /\ evicted' = evicted \cup {limiters[k] : k \in gone}
    /\ UNCHANGED <<httpVars, articleVars>>
    /\ UNCHANGED <<clock, nextBucket, bucketVars, smu, mu, pc, ip, limiter,
                   ok, sweepVars, requests, bucketKey, createTime, epoch,
                   refilled, capLost, burst, admitted>>

NextRate ==
    \/ Tick
    \/ \E p \in Procs : GetLimiter(p)
    \/ \E p \in Procs : AllowCall(p)
    \/ Cleanup

SpecRate == Init /\ [][NextRate]_vars

\* ------------------------------------------------ article service calls
Done(op, userID, id, err, a) ==
    [pc |-> "done", op |-> op, userID |-> userID, id |-> id,
     title |-> <<>>, content |-> <<>>, list |-> NoList,
     updates |-> <<>>, err |-> err, found |-> a # NoArticle,
     owner |-> IF a # NoArticle THEN a.UserID ELSE 0]

\* the title and content arguments of a call, kept with its record
WithArgs(c, title, content) ==
    [c EXCEPT !.title = title, !.content = content]

\* a caller may start a call (callers are interchangeable: the first
\* idle one starts, and a caller that has the result of a create or an
\* update takes it, a step of its own that touches nothing shared, before
\* another call starts); the mock repository of the unit tests is not
\* safe for concurrent use and its callers are sequential
CanCall(p) ==
    /\ repoKind # None
    /\ call[p].pc = "idle"
    /\ \A q \in Callers :
          call[q].pc = "done" => call[q].op \in {"get", "delete"}
    /\ \A q \in Callers : call[q].pc = "idle" => CallerRank[p] <= CallerRank[q]
    /\ calls < MaxCalls
    /\ repoKind = "mock" => \A q \in Callers : call[q].pc # "write"

\* NewService(repo) over the gorm repository or over the mock repository
NewService(kind) ==
    /\ repoKind = None
    /\ repoKind' = kind
    /\ UNCHANGED <<articles, nextID, call, calls, deleted>>
    /\ UNCHANGED <<httpVars, limiterVars>>

\* CreateArticle(userID, title, content)
CreateArticle(p, userID, title, content) ==
    /\ CanCall(p)
    /\ nextID <= MaxArticles
    /\ calls' = calls + 1
    /\ LET err == CreateCheck(userID, title, content)
           a == [UserID |-> userID, Title |-> title, Content |-> content]
       IN IF err # NoErr
          THEN /\ call' = [call EXCEPT ![p] =
                             WithArgs(Done("create", userID, 0, err,
                                           NoArticle), title, content)]
               /\ UNCHANGED <<articles, nextID>>
          ELSE /\ articles' = RepoCreate(articles, nextID, a)
               /\ nextID' = nextID + 1
               /\ call' = [call EXCEPT ![p] =
                             WithArgs(Done("create", userID, nextID, NoErr,
                                           a), title, content)]
    /\ UNCHANGED <<repoKind, deleted>>
    /\ UNCHANGED <<httpVars, limiterVars>>

\* GetArticleByID(id)
GetArticleByID(p, id) ==
    /\ CanCall(p)
    /\ calls' = calls + 1
    /\ LET r == GetByID(articles, id) IN
       call' = [call EXCEPT ![p] = Done("get", 0, id, r.err, r.article)]
    /\ UNCHANGED <<repoKind, articles, nextID, deleted>>
    /\ UNCHANGED <<httpVars, limiterVars>>

\* UpdateArticle(userID, id, title, content) up to the call of
\* repo.Update: GetByID, the ownership check, the validation of the
\* fields and the assignments to the fetched article
UpdateArticle(p, userID, id, title, content) ==
    /\ CanCall(p)
    /\ calls' = calls + 1
    /\ LET r == GetByID(articles, id) IN
       IF r.err # NoErr
       THEN /\ call' = [call EXCEPT ![p] =
                          WithArgs(Done("update", userID, id, r.err,
                                        NoArticle), title, content)]
            /\ UNCHANGED articles
       ELSE LET plan == UpdatePlan(r.article, userID, title, content) IN
            /\ articles' = Aliased(repoKind, articles, id, plan.article)
            /\ call' = [call EXCEPT ![p] =
                          IF plan.err # NoErr
                          THEN WithArgs(Done("update", userID, id,
                                             plan.err, r.article),
                                        title, content)
                          ELSE [pc |-> "write", op |-> "update",
                                userID |-> userID, id |-> id,
                                title |-> title, content |-> content,
                                list |-> NoList,
                                updates |-> plan.updates, err |-> NoErr,
                                found |-> TRUE,
                                owner |-> r.article.UserID]]
    /\ UNCHANGED <<repoKind, nextID, deleted>>
    /\ UNCHANGED <<httpVars, limiterVars>>

\* UpdateArticle: repo.Update(id, updates) and the return
UpdateWrite(p) ==
    /\ call[p].pc = "write"
    /\ call[p].op = "update"
    /\ LET w == RepoUpdate(articles, call[p].id, call[p].updates) IN
       /\ articles' = w.store
       /\ call' = [call EXCEPT ![p] =
                     [@ EXCEPT !.pc = "done", !.updates = <<>>,
                               !.err = IF w.err # NoErr
                                       THEN ErrInternal \cup w.err
                                       ELSE NoErr]]
    /\ UNCHANGED <<repoKind, nextID, calls, deleted>>
    /\ UNCHANGED <<httpVars, limiterVars>>

\* DeleteArticle(userID, id) up to the call of repo.Delete
DeleteArticle(p, userID, id) ==
    /\ CanCall(p)
    /\ calls' = calls + 1
    /\ LET r == GetByID(articles, id) IN
       call' = [call EXCEPT ![p] =
                  IF r.err # NoErr
                  THEN Done("delete", userID, id, r.err, NoArticle)
                  ELSE IF ~Owns(r.article, userID)
                  THEN Done("delete", userID, id, ErrForbidden, r.article)
                  ELSE [pc |-> "write", op |-> "delete",
                        userID |-> userID, id |-> id,
                        title |-> <<>>, content |-> <<>>,
                        list |-> NoList, updates |-> <<>>,
                        err |-> NoErr, found |-> TRUE,
                        owner |-> r.article.UserID]]
    /\ UNCHANGED <<repoKind, articles, nextID, deleted>>
    /\ UNCHANGED <<httpVars, limiterVars>>

\* DeleteArticle: repo.Delete(id) and the return
DeleteWrite(p) ==
    /\ call[p].pc = "write"
    /\ call[p].op = "delete"
    /\ LET w == RepoDelete(articles, call[p].id) IN
       /\ articles' = w.store
       /\ deleted' = IF w.err = NoErr THEN deleted \cup {call[p].id}
                     ELSE deleted
       /\ call' = [call EXCEPT ![p] =
                     [@ EXCEPT !.pc = "done",
                               !.err = IF w.err # NoErr
                                       THEN ErrInternal \cup w.err
                                       ELSE NoErr]]
    /\ UNCHANGED <<repoKind, nextID, calls>>
    /\ UNCHANGED <<httpVars, limiterVars>>

\* GetAllArticles(page, limit) up to the second query of repo.GetAll: the
\* defaults, then the count; mockRepository.GetAll is one step
GetAllArticles(p, page, limit) ==
    /\ CanCall(p)
    /\ calls' = calls + 1
    /\ LET total == Count(articles)
           c == [Done("list", 0, 0, NoErr, NoArticle) EXCEPT
                   !.list = ListCall(page, limit, total, <<>>)]
       IN IF repoKind = "mock"
          THEN \E rows \in Orders(repoKind, articles) :
                 call' = [call EXCEPT ![p] =
                            [c EXCEPT !.list.items =
                               PageOf(rows, c.list.repoPage,
                                      c.list.repoLimit)]]
          ELSE call' = [call EXCEPT ![p] = [c EXCEPT !.pc = "find"]]
    /\ UNCHANGED <<repoKind, articles, nextID, deleted>>
    /\ UNCHANGED <<httpVars, limiterVars>>

\* GetAllArticles: the Find of repo.GetAll and the return
GetAllFind(p) ==
    /\ call[p].pc = "find"
    /\ \E rows \in Orders(repoKind, articles) :
         call' = [call EXCEPT ![p] =
                    [@ EXCEPT !.pc = "done",
                              !.list.items =
                                 PageOf(rows, call[p].list.repoPage,
                                        call[p].list.repoLimit)]]
    /\ UNCHANGED <<repoKind, articles, nextID, calls, deleted>>
    /\ UNCHANGED <<httpVars, limiterVars>>

\* the caller has the result of its call
Return(p) ==
    /\ call[p].pc = "done"
    /\ call' = [call EXCEPT ![p] = IdleCall]
    /\ UNCHANGED <<repoKind, articles, nextID, calls, deleted>>
    /\ UNCHANGED <<httpVars, limiterVars>>

NextArticle ==
    \/ \E kind \in {"gorm", "mock"} : NewService(kind)
    \/ \E p \in Callers, userID \in {0} \cup Users, title \in TitleStrings,
          content \in ContentStrings :
            CreateArticle(p, userID, title, content)
    \/ \E p \in Callers, id \in 1..(MaxArticles + 1) : GetArticleByID(p, id)
    \/ \E p \in Callers, userID \in Users, id \in 1..(MaxArticles + 1),
          title \in TitlePtrs, content \in ContentPtrs :
            UpdateArticle(p, userID, id, title, content)
    \/ \E p \in Callers : UpdateWrite(p)
    \/ \E p \in Callers, userID \in Users, id \in 1..(MaxArticles + 1) :
            DeleteArticle(p, userID, id)
    \/ \E p \in Callers : DeleteWrite(p)
    \/ \E p \in Callers, page \in 0..2, limit \in {0, MaxLimit, MaxLimit + 1} :
            GetAllArticles(p, page, limit)
    \/ \E p \in Callers : GetAllFind(p)
    \/ \E p \in Callers : Return(p)

SpecArticle == Init /\ [][NextArticle]_vars

\* ---------------------------------------------------------- handler chain
\* The routes main registers, a preflight request and an unknown path.
Routes == {"health", "create", "get", "list", "update", "delete",
           "options", "nomatch"}
BadID == 0 - 1
\* the requests of this chain come from one client address
HttpKeys == {"k1"}
RateLimitBody == "rate limit exceeded, please try again later"

\* the routes registered with middleware.JWTAuthMiddleware(cfg)
ProtectedNoDelete(r) == r \in {"create", "update"}
Protected(r) == r \in {"create", "update", "delete"}

\* RateLimitMiddleware: c.Abort() and return when allow() denies,
\* c.Next() otherwise
RateLimitNextNoAbort(allowed) == "cors"
RateLimitNext(allowed) == IF allowed THEN "cors" ELSE "done"

\* the Authorization headers a client may send: none, another scheme, a
\* bare or misplaced token, extra spaces, an empty or garbled token, and
\* the well-formed header, each over the tokens in circulation
KnownTokens ==
    (IF issued = NoToken THEN {}
     ELSE {issued.token, SignedRS256(issued.token), Tampered(issued.token)})
    \cup {ForeignToken(s, clock) : s \in Secrets}
Headers ==
    {<<>>, <<Word("Basic"), SP, Word("xyz")>>, <<Bearer>>, <<Bearer, SP>>,
     <<Bearer, SP, Word("xyz")>>}
    \cup UNION {{<<t>>, <<Bearer, SP, t>>, <<Bearer, SP, SP, t>>,
                 <<Bearer, SP, t, SP>>, <<Word("bearer"), SP, t>>} :
                t \in KnownTokens}

\* the page and limit parameters a client may send: none, not a number,
\* zero, a negative number, a page, the largest limit and one above it
PageQueries == {<<>>, <<"x">>, <<"0">>, <<"2">>}
LimitQueries == {<<>>, <<"x">>, <<"0">>, <<"-", "1">>, Itoa(MaxLimit),
                 Itoa(MaxLimit + 1)}

\* main: LoadConfig, NewRepository(db), NewService, NewHandler, the router
Main(s) ==
    /\ server = "down"
    /\ repoKind = None
    /\ server' = "up"
    /\ secret' = s
    /\ repoKind' = "gorm"
    /\ UNCHANGED <<issued, hpc, route, ran, status, body, ctx, authHeader,
                   parsed, handlerUser, httpRequests, meta>>
    /\ UNCHANGED <<articles, nextID, call, calls, deleted>>
    /\ UNCHANGED limiterVars

\* cmd/token: CreateTestToken(userID, secret) prints a token
IssueToken(userID, s) ==
    /\ issued = NoToken
    /\ hpc = "idle"
    /\ issued' = [userID |-> userID, secret |-> s, at |-> clock,
                  token |-> CreateTestToken(userID, s, clock)]
    /\ UNCHANGED <<server, secret, hpc, route, ran, status, body, ctx,
                   authHeader, parsed, handlerUser, httpRequests, meta>>
    /\ UNCHANGED <<articleVars, limiterVars>>

\* a request arrives and the router starts its chain; gin.Default()'s
\* Logger and Recovery call c.Next() at once
Arrive(r) ==
    /\ server = "up"
    /\ hpc = "idle"
    /\ httpRequests < MaxHttpRequests
    /\ httpRequests' = httpRequests + 1
    /\ route' = r
    /\ ran' = <<"logger", "recovery">>
    /\ hpc' = "ratelimit"
    /\ UNCHANGED <<server, secret, issued, status, body, ctx, authHeader,
                   parsed, handlerUser, meta>>
    /\ UNCHANGED <<articleVars, limiterVars>>

\* RateLimitMiddleware for a request from address k: getLimiter(ip) and
\* limiter.allow(); 429 and c.Abort(), or c.Next()
RateLimitMiddleware(k) ==
    /\ hpc = "ratelimit"
    /\ CanLock
    /\ LET isNew == MustCreate(limiters, k)
           b == IF isNew THEN nextBucket ELSE Lookup(limiters, k)
           t0 == IF isNew THEN NewTokens(RateLimitTokens) ELSE tokens[b]
           r0 == IF isNew THEN clock ELSE lastRefillTime[b]
           a0 == IF isNew THEN clock ELSE lastAccessTime[b]
           tokensToAdd == TokensToAdd(clock - r0, RateLimitRefill)
           t == IF tokensToAdd > 0
                THEN Refill(t0, tokensToAdd, RateLimitTokens)
                ELSE t0
           allowed == t > 0
       IN
       /\ isNew => nextBucket <= MaxBuckets
       /\ MutexFree(b)
       /\ limiters' = [limiters EXCEPT ![k] = b]
       /\ nextBucket' = IF isNew THEN nextBucket + 1 ELSE nextBucket
       /\ tokens' = [tokens EXCEPT ![b] = IF allowed THEN t - 1 ELSE t]
       /\ lastRefillTime' = [lastRefillTime EXCEPT ![b] =
                               NextRefillTime(r0, clock, tokensToAdd)]
       /\ lastAccessTime' = [lastAccessTime EXCEPT ![b] =
                               AccessTime(a0, clock, allowed)]
       /\ status' = IF allowed THEN status ELSE 429
       /\ body' = IF allowed THEN body ELSE RateLimitBody
       /\ hpc' = RateLimitNext(allowed)
    /\ ran' = Append(ran, "ratelimit")
    /\ UNCHANGED <<server, secret, issued, route, ctx, authHeader, parsed,
                   handlerUser, httpRequests, meta>>
    /\ UNCHANGED <<clock, tickC, smu, mu, pc, ip, limiter, ok, sweepVars,
                   requests, histVars>>
    /\ UNCHANGED articleVars

\* CORSMiddleware: the response headers are set (not observed here); a
\* preflight request is answered 204 and aborted; c.Next() otherwise
CORSMiddleware ==
    /\ hpc = "cors"
    /\ ran' = Append(ran, "cors")
    /\ IF route = "options"
       THEN /\ status' = 204
            /\ hpc' = "done"
       ELSE /\ status' = status
            /\ hpc' = IF Protected(route) THEN "auth" ELSE "handler"
    /\ UNCHANGED <<server, secret, issued, route, body, ctx, authHeader,
                   parsed, handlerUser, httpRequests, meta>>
    /\ UNCHANGED <<articleVars, limiterVars>>

\* JWTAuthMiddleware(cfg) on the Authorization header h
JWTAuthMiddleware(h) ==
    /\ hpc = "auth"
    /\ ran' = Append(ran, "auth")
    /\ authHeader' = h
    /\ LET r == Authenticate(h, secret, clock) IN
       /\ parsed' = r.parsed
       /\ IF r.status # 0
          THEN /\ status' = r.status
               /\ body' = r.body
               /\ hpc' = "done"
               /\ ctx' = ctx
          ELSE /\ ctx' = [exists |-> r.set, value |-> r.value]
               /\ hpc' = "handler"
               /\ UNCHANGED <<status, body>>
    /\ UNCHANGED <<server, secret, issued, route, handlerUser,
                   httpRequests, meta>>
    /\ UNCHANGED <<articleVars, limiterVars>>

\* articleService.UpdateArticle and DeleteArticle from call to return
SvcUpdate(store, kind, userID, id, title, content) ==
    LET r == GetByID(store, id) IN
    IF r.err # NoErr
    THEN [err |-> r.err, store |-> store]
    ELSE LET plan == UpdatePlan(r.article, userID, title, content)
             s1 == Aliased(kind, store, id, plan.article)
             w == RepoUpdate(s1, id, plan.updates)
         IN IF plan.err # NoErr
            THEN [err |-> plan.err, store |-> s1]
            ELSE [err |-> IF w.err # NoErr THEN ErrInternal \cup w.err
                          ELSE NoErr,
                  store |-> w.store]
SvcDelete(store, userID, id) ==
    LET r == GetByID(store, id)
        w == RepoDelete(store, id)
    IN IF r.err # NoErr
       THEN [err |-> r.err, store |-> store]
       ELSE IF ~Owns(r.article, userID)
       THEN [err |-> ErrForbidden, store |-> store]
       ELSE [err |-> IF w.err # NoErr THEN ErrInternal \cup w.err
                     ELSE NoErr,
             store |-> w.store]

\* the message of an error of the service
ErrorText(err) ==
    IF "ErrInternal" \in err THEN "internal error"
    ELSE IF "ErrNotFound" \in err THEN "article not found"
    ELSE IF "ErrForbidden" \in err
    THEN "forbidden: you can only manage your own articles"
    ELSE "validation error"

\* a handler writes its response and returns
Respond(st, msg) ==
    /\ status' = st
    /\ body' = msg
    /\ hpc' = "done"
    /\ ran' = Append(ran, "handler")

\* handleError(c, err)
RespondError(err) ==
    \E st \in HandleError(err) :
        Respond(st, IF st = 500 THEN "internal server error"
                    ELSE ErrorText(err))

\* the handler of /health, and the 404 of a path without a route
PlainHandler ==
    /\ hpc = "handler"
    /\ route \in {"health", "nomatch"}
    /\ Respond(IF route = "health" THEN 200 ELSE 404, "")
    /\ UNCHANGED <<server, secret, issued, route, ctx, authHeader, parsed,
                   handlerUser, httpRequests, meta>>
    /\ UNCHANGED <<articleVars, limiterVars>>

\* Handler.CreateArticle: GetUserID, ShouldBindJSON, service.CreateArticle
HandlerCreateArticle(bindOK, title, content) ==
    /\ hpc = "handler"
    /\ route = "create"
    /\ nextID <= MaxArticles
    /\ LET u == GetUserID(ctx)
           err == CreateCheck(u.userID, title, content)
           a == [UserID |-> u.userID, Title |-> title, Content |-> content]
       IN
       /\ handlerUser' = u.userID
       /\ IF u.err
          THEN /\ Respond(401, "user_id not found in context")
               /\ UNCHANGED <<articles, nextID>>
          ELSE IF ~bindOK
          THEN /\ Respond(400, "validation failed")
               /\ UNCHANGED <<articles, nextID>>
          ELSE IF err # NoErr
          THEN /\ RespondError(err)
               /\ UNCHANGED <<articles, nextID>>
          ELSE /\ articles' = RepoCreate(articles, nextID, a)
               /\ nextID' = nextID + 1
               /\ Respond(201, "")
    /\ UNCHANGED <<server, secret, issued, route, ctx, authHeader, parsed,
                   httpRequests, meta>>
    /\ UNCHANGED <<repoKind, call, calls, deleted>>
    /\ UNCHANGED limiterVars

\* Handler.GetArticleByID: getID, service.GetArticleByID
HandlerGetArticleByID(id) ==
    /\ hpc = "handler"
    /\ route = "get"
    /\ IF id = BadID
       THEN Respond(400, "invalid article ID")
       ELSE LET r == GetByID(articles, id) IN
            IF r.err # NoErr THEN RespondError(r.err) ELSE Respond(200, "")
    /\ UNCHANGED <<server, secret, issued, route, ctx, authHeader, parsed,
                   handlerUser, httpRequests, meta>>
    /\ UNCHANGED <<articleVars, limiterVars>>

\* Handler.UpdateArticle: GetUserID, getID, ShouldBindJSON, the test that
\* a field is present, service.UpdateArticle
HandlerUpdateArticle(id, bindOK, title, content) ==
    /\ hpc = "handler"
    /\ route = "update"
    /\ LET u == GetUserID(ctx)
           r == SvcUpdate(articles, repoKind, u.userID, id, title, content)
       IN
       /\ handlerUser' = u.userID
       /\ IF u.err
          THEN Respond(401, "user_id not found in context")
               /\ UNCHANGED articles
          ELSE IF id = BadID
          THEN Respond(400, "invalid article ID") /\ UNCHANGED articles
          ELSE IF ~bindOK
          THEN Respond(400, "validation failed") /\ UNCHANGED articles
          ELSE IF title = NilPtr /\ content = NilPtr
          THEN Respond(400, "at least one field (title or content) must be provided")
               /\ UNCHANGED articles
          ELSE /\ articles' = r.store
               /\ IF r.err # NoErr THEN RespondError(r.err)
                  ELSE Respond(200, "")
    /\ UNCHANGED <<server, secret, issued, route, ctx, authHeader, parsed,
                   httpRequests, meta>>
    /\ UNCHANGED <<repoKind, nextID, call, calls, deleted>>
    /\ UNCHANGED limiterVars

\* Handler.DeleteArticle: GetUserID, getID, service.DeleteArticle
HandlerDeleteArticle(id) ==
    /\ hpc = "handler"
    /\ route = "delete"
    /\ LET u == GetUserID(ctx)
           r == SvcDelete(articles, u.userID, id)
       IN
       /\ handlerUser' = u.userID
       /\ IF u.err
          THEN Respond(401, "user_id not found in context")
               /\ UNCHANGED <<articles, deleted>>
          ELSE IF id = BadID
          THEN Respond(400, "invalid article ID")
               /\ UNCHANGED <<articles, deleted>>
          ELSE /\ articles' = r.store
               /\ deleted' = IF r.err = NoErr THEN deleted \cup {id}
                             ELSE deleted
               /\ IF r.err # NoErr THEN RespondError(r.err)
                  ELSE Respond(204, "")
    /\ UNCHANGED <<server, secret, issued, route, ctx, authHeader, parsed,
                   httpRequests, meta>>
    /\ UNCHANGED <<repoKind, nextID, call, calls>>
    /\ UNCHANGED limiterVars

\* Handler.GetAllArticles: the query, service.GetAllArticles, the response
HandlerGetAllArticles(pageStr, limitStr) ==
    /\ hpc = "handler"
    /\ route = "list"
    /\ LET page == QueryOr(DefaultPage, pageStr)
           limit == QueryOr(DefaultLimit, limitStr)
           repoPage == PageOrDefault(page)
           repoLimit == LimitOrDefault(limit)
           total == Count(articles)
       IN \E rows \in Orders(repoKind, articles) :
            meta' = [data |-> PageOf(rows, repoPage, repoLimit),
                     page |-> page, limit |-> limit, total |-> total,
                     total_pages |-> TotalPages(total, limit),
                     repoPage |-> repoPage, repoLimit |-> repoLimit]
    /\ Respond(200, "")
    /\ UNCHANGED <<server, secret, issued, route, ctx, authHeader, parsed,
                   handlerUser, httpRequests>>
    /\ UNCHANGED <<articleVars, limiterVars>>

\* the response is sent; the worker ends
Finish ==
    /\ hpc = "done"
    /\ hpc' = "idle"
    /\ route' = "none"
    /\ ran' = <<>>
    /\ status' = 0
    /\ body' = ""
    /\ ctx' = [exists |-> FALSE, value |-> 0]
    /\ authHeader' = <<>>
    /\ parsed' = FALSE
    /\ handlerUser' = 0
    /\ meta' = NoMeta
    /\ UNCHANGED <<server, secret, issued, httpRequests>>
    /\ UNCHANGED <<articleVars, limiterVars>>

\* One request is in the chain at a time; time passes and tokens are
\* issued between two requests.  The sweep of the registry and the
\* concurrency of the requests on the registry are those of Spec.
NextHttp ==
    \/ \E s \in Secrets : Main(s)
    \/ \E userID \in {0} \cup Users, s \in Secrets : IssueToken(userID, s)
    \/ (hpc = "idle" /\ Tick)
    \/ \E r \in Routes : Arrive(r)
    \/ \E k \in HttpKeys : RateLimitMiddleware(k)
    \/ CORSMiddleware
    \/ \E h \in Headers : JWTAuthMiddleware(h)
    \/ PlainHandler
    \/ \E bindOK \in BOOLEAN, title \in TitleStrings,
          content \in ContentStrings :
            HandlerCreateArticle(bindOK, title, content)
    \/ \E id \in {BadID} \cup 1..(MaxArticles + 1) : HandlerGetArticleByID(id)
    \/ \E id \in {BadID} \cup 1..(MaxArticles + 1), bindOK \in BOOLEAN,
          title \in TitlePtrs, content \in ContentPtrs :
            HandlerUpdateArticle(id, bindOK, title, content)
    \/ \E id \in {BadID} \cup 1..(MaxArticles + 1) : HandlerDeleteArticle(id)
    \/ \E pageStr \in PageQueries, limitStr \in LimitQueries :
            HandlerGetAllArticles(pageStr, limitStr)
    \/ Finish

SpecHttp == Init /\ [][NextHttp]_vars

\* ------------------------------------------------------------ type check
TypeOK ==
    /\ clock \in 0..MaxTime
    /\ tickC \in BOOLEAN
    /\ limiters \in [Keys -> Buckets \cup {NoBucket}]
    /\ smu.readers \subseteq Procs
    /\ smu.writer \in Procs \cup {Sweeper, None}
    /\ nextBucket \in 1..(MaxBuckets + 1)
    /\ pc \in [Procs -> {"idle", "rlocked", "wlock", "allow",
                         "consume"}]
    /\ spc \in {"wait", "scan"}
    /\ sweepTodo \subseteq Keys
    /\ requests \in 0..MaxRequests

\* ---------------------------------------------------------------- claims
InAllow(p) == pc[p] \in {"allow", "consume"}
AllowStep(p) == pc[p] = "allow" /\ pc'[p] = "consume"

\* C1: in every reachable state the token count of every bucket is at
\* least 0 and at most the capacity.
C1_TokensWithinCapacity ==
    \A b \in Created : tokens[b] >= 0 /\ tokens[b] <= RateLimitTokens

\* a call has refilled a bucket and the cap cut the refill
C1_Witness ==
    \E p \in Procs :
        /\ pc[p] = "consume"
        /\ capLost[limiter[p]]
        /\ tokens[limiter[p]] = RateLimitTokens
        /\ lastRefillTime[limiter[p]] > createTime[limiter[p]]

\* C2: while less than one refill interval has elapsed since a bucket was
\* created, the n-th call on it is allowed iff n is at most the capacity:
\* the first RateLimitTokens calls are allowed, the next one is denied.
C2_FreshBucketBurst ==
    \A p \in Procs :
        (/\ pc[p] = "consume"
         /\ lastAccessTime[limiter[p]] - createTime[limiter[p]] < RateLimitRefill)
        => (ok[p] <=> epoch[limiter[p]].calls <= RateLimitTokens)

\* the (capacity+1)-th call on a fresh bucket has just been denied
C2_Witness ==
    \E p \in Procs :
        /\ pc[p] = "consume"
        /\ ~ok[p]
        /\ lastAccessTime[limiter[p]] - createTime[limiter[p]] < RateLimitRefill
        /\ epoch[limiter[p]].calls = RateLimitTokens + 1
        /\ epoch[limiter[p]].allowed = RateLimitTokens

\* C3: of the n calls decided on a bucket since it last held m tokens
\* (after creation or after a refill), exactly min(m, n) were allowed,
\* whatever the interleaving, and each of them took exactly one token.
C3_AtomicCheckAndDecrement ==
    \A b \in Created :
        /\ epoch[b].allowed = Min(epoch[b].tokens, epoch[b].calls)
        /\ mu[b] = None => tokens[b] = epoch[b].tokens - epoch[b].allowed

\* two workers are in allow() on one bucket that held one token: one has
\* taken the lock and the last token, the other waits for the lock
C3_Witness ==
    \E p, q \in Procs :
        /\ p # q
        /\ limiter[p] = limiter[q]
        /\ pc[p] = "consume" /\ ok[p]
        /\ tokens[limiter[p]] = 1
        /\ epoch[limiter[p]].allowed = epoch[limiter[p]].tokens
        /\ pc[q] = "allow"

\* C4 (as amended): a call made when d has elapsed since the last-refill
\* timestamp adds floor(d / interval) tokens, capped, before it tests the
\* count; on an exhausted bucket whose last-refill timestamp is d in the
\* past with interval <= d < 2*interval the call is allowed and leaves
\* no token for the call that follows at once.
C4_RefillAmount ==
    [][\A p \in Procs :
         AllowStep(p) =>
           LET b == limiter[p]
               d == clock - lastRefillTime[b]
               t == Min(RateLimitTokens, tokens[b] + (d \div RateLimitRefill))
           IN /\ tokens'[b] = t
              /\ ok'[p] = (t > 0)
              /\ (tokens[b] = 0 /\ RateLimitRefill <= d /\ d < 2 * RateLimitRefill)
                 => (tokens'[b] = 1 /\ ok'[p])]_vars

\* a call has just put exactly one token into an exhausted bucket
C4_Witness ==
    \E p \in Procs :
        /\ pc[p] = "consume" /\ ok[p]
        /\ tokens[limiter[p]] = 1
        /\ epoch[limiter[p]] = [tokens |-> 1, calls |-> 1, allowed |-> 1]
        /\ ~capLost[limiter[p]]
        /\ refilled[limiter[p]] = 1

\* C4 (as stated): on an exhausted bucket left without calls for d with
\* interval <= d < 2*interval, the next call is allowed and the one that
\* follows at once is denied, i.e. the call finds exactly one token.
C4_IdleRefillOne ==
    [][\A p \in Procs :
         (/\ AllowStep(p)
          /\ tokens[limiter[p]] = 0
          /\ RateLimitRefill <= clock - lastAccessTime[limiter[p]]
          /\ clock - lastAccessTime[limiter[p]] < 2 * RateLimitRefill)
         => tokens'[limiter[p]] = 1]_vars

\* C5: on a bucket whose refills were never cut by the cap, the tokens
\* added by all calls up to the latest call equal the whole intervals
\* elapsed between the bucket's creation and that call.
C5_NoDriftLoss ==
    \A b \in Created :
        ~capLost[b] =>
            refilled[b] = (lastAccessTime[b] - createTime[b]) \div RateLimitRefill

\* C6: a call that finds less than one whole interval elapsed since the
\* last-refill timestamp leaves that timestamp unchanged, from the lock to
\* the return, whether it is allowed or denied.
C6_NoRefillKeepsTimestamp ==
    [][\A p \in Procs :
         /\ (AllowStep(p) /\ clock - lastRefillTime[limiter[p]] < RateLimitRefill)
            => lastRefillTime'[limiter[p]] = lastRefillTime[limiter[p]]
         /\ (pc[p] = "consume" /\ pc'[p] = "idle")
            => lastRefillTime'[limiter[p]] = lastRefillTime[limiter[p]]]_vars

\* a denied call has kept a last-refill timestamp that lies a fraction of
\* an interval in the past
C6_Witness ==
    \E p \in Procs :
        /\ pc[p] = "consume" /\ ~ok[p]
        /\ lastAccessTime[limiter[p]] > lastRefillTime[limiter[p]]
        /\ lastAccessTime[limiter[p]] - lastRefillTime[limiter[p]] < RateLimitRefill

\* C7: a request works on a bucket created for its own client address,
\* and the token count of a bucket changes only in a step of a request
\* from the address the bucket was created for.
C7_ClientIsolation ==
    [][/\ \A p \in Procs : InAllow(p)' => bucketKey'[limiter'[p]] = ip'[p]
       /\ \A b \in Buckets :
            tokens'[b] # tokens[b] =>
                \E p \in Procs : pc'[p] # pc[p] /\ ip[p] = bucketKey'[b]]_vars

\* requests from k1 have exhausted the bucket of k1, and a request from
\* k2 is allowed from the full bucket of k2
C7_Witness ==
    \E p \in Procs :
        /\ pc[p] = "consume" /\ ok[p] /\ ip[p] = "k2"
        /\ tokens[limiter[p]] = RateLimitTokens
        /\ limiters["k1"] # NoBucket
        /\ tokens[limiters["k1"]] = 0
        /\ mu[limiters["k1"]] = None

\* C8: every bucket ever stored is still the entry of its key unless a
\* sweep deleted it (an entry is never overwritten, one bucket per key),
\* and two requests from one address hold the same bucket unless a sweep
\* deleted one of the two.
C8_RegistryRaceSafe ==
    /\ \A b \in Created : b \notin evicted => limiters[bucketKey[b]] = b
    /\ \A p, q \in Procs :
         (/\ InAllow(p) /\ InAllow(q) /\ ip[p] = ip[q]
          /\ limiter[p] \notin evicted /\ limiter[q] \notin evicted)
         => limiter[p] = limiter[q]

\* a worker found its key absent under the read lock and is about to take
\* the write lock, while another worker has stored the key's bucket
C8_Witness ==
    \E p, q \in Procs :
        /\ p # q /\ ip[p] = ip[q]
        /\ pc[q] = "wlock"
        /\ InAllow(p)
        /\ limiters[ip[q]] = limiter[p]
        /\ limiter[p] # NoBucket

\* C9: the sweep deletes the entry it examines iff the sweep's time minus
\* the bucket's last-access time exceeds the TTL; nothing else deletes an
\* entry; every entry the running sweep has examined and kept was
\* accessed within the TTL of the sweep's time.
C9_EvictionCorrect ==
    [][/\ \A k \in Keys :
            /\ (k \in sweepTodo /\ k \notin sweepTodo')
               => (limiters'[k] = NoBucket
                   <=> sweepNow - lastAccessTime[limiters[k]] > LimiterTTL)
            /\ (limiters[k] # NoBucket /\ limiters'[k] = NoBucket)
               => (spc = "scan" /\ k \in sweepTodo /\ k \notin sweepTodo')
       /\ spc' = "scan" =>
            \A k \in Keys \ sweepTodo' :
                limiters'[k] # NoBucket
                => sweepNow' - lastAccessTime'[limiters'[k]] <= LimiterTTL]_vars

\* a sweep has deleted the idle bucket of one key and kept the bucket of
\* the other
C9_Witness ==
    /\ spc = "scan"
    /\ sweepTodo = {}
    /\ \E b \in evicted : limiters[bucketKey[b]] = NoBucket
    /\ \E k \in Keys : limiters[k] # NoBucket

\* C10: the allow/deny outcomes of the requests of one key are those of
\* some sequential order of allow() calls on a single bucket.  Calls made
\* at one instant find no refill between them, so a single bucket allows
\* at most its capacity of them: the number of requests of one key that
\* are allowed at one instant never exceeds RateLimitTokens.
C10_SerializablePerKey ==
    \A k \in Keys : burst[k].count <= RateLimitTokens

\* C11: every allow() call sets the bucket's last-access timestamp to the
\* time of the call, whether the call is allowed or denied; a sweep that
\* starts within the TTL of a denied call therefore keeps the bucket.
C11_AccessTimeOnEveryCall ==
    [][/\ \A p \in Procs :
            AllowStep(p) => lastAccessTime'[limiter[p]] = clock
       /\ \A k \in Keys :
            (/\ limiters[k] # NoBucket /\ limiters'[k] = NoBucket
             /\ epoch[limiters[k]].calls > 0)
            => sweepNow - lastAccessTime[limiters[k]] > LimiterTTL]_vars

\* a call on an exhausted bucket has just been denied, later than the
\* bucket's previous access, and the bucket's last-access time is the
\* time of that call
C11_Witness ==
    \E p \in Procs :
        /\ pc[p] = "consume" /\ ~ok[p]
        /\ clock > createTime[limiter[p]]
        /\ lastAccessTime[limiter[p]] = clock
        /\ epoch[limiter[p]].calls > 1

\* ------------------------------------------------- claims: handler chain
\* handler h of the chain has run for the request in flight
Ran(h) == \E i \in 1..Len(ran) : ran[i] = h
\* the header is "Bearer", one space and a JWT, and the JWT is an HMAC
\* token signed with the configured secret whose time claims hold
BearerToken(h) == Len(h) = 3 /\ h[1] = Bearer /\ h[2] = SP /\ IsJwt(<<h[3]>>)
Verifies(tok) ==
    /\ tok.header.alg \in HmacAlgs
    /\ tok.sig.key = secret
    /\ tok.sig.header = tok.header
    /\ tok.sig.payload = tok.payload
    /\ clock < tok.payload.exp
    /\ clock >= tok.payload.nbf

\* C12: for every request the rate limiter runs before the CORS
\* middleware, the authentication middleware and the route handler; a
\* request that finds its bucket empty is answered 429 with the body
\* "rate limit exceeded, please try again later", and a request answered
\* 429 is finished without CORS, authentication or handler having run.
C12_RateLimitFirst ==
    [][/\ \A i \in 1..Len(ran') :
            ran'[i] \in {"cors", "auth", "handler"}
            => \E j \in 1..(i - 1) : ran'[j] = "ratelimit"
       /\ \A k \in HttpKeys :
            (/\ hpc = "ratelimit" /\ hpc' # "ratelimit"
             /\ limiters[k] # NoBucket
             /\ tokens[limiters[k]] = 0
             /\ clock - lastRefillTime[limiters[k]] < RateLimitRefill)
            => status' = 429
       /\ status' = 429
            => /\ body' = RateLimitBody
               /\ hpc' = "done"
               /\ ran' = <<"logger", "recovery", "ratelimit">>]_vars

\* a request for a protected route was denied by the rate limiter
C12_Witness ==
    /\ hpc = "done"
    /\ status = 429
    /\ route = "delete"
    /\ ~Ran("auth") /\ ~Ran("handler")

\* C13: when the create, update or delete handler has run, the
\* authentication middleware ran before it on a header that carries a
\* token verifying under the configured secret, and the principal the
\* handler read is that token's user_id and is not zero; when the
\* middleware has not stored a principal, the request is finished with
\* 401 and no handler has run.
C13_HandlersBehindAuth ==
    /\ (Ran("handler") /\ route \in {"create", "update", "delete"})
       => /\ \E i, j \in 1..Len(ran) :
                i < j /\ ran[i] = "auth" /\ ran[j] = "handler"
          /\ BearerToken(authHeader)
          /\ Verifies(authHeader[3])
          /\ handlerUser = authHeader[3].payload.user_id
          /\ handlerUser # 0
    /\ (Ran("auth") /\ ~ctx.exists)
       => (hpc = "done" /\ status = 401 /\ ~Ran("handler"))

\* the update handler has run for principal 2 and answered 200
C13_Witness ==
    /\ hpc = "done"
    /\ route = "update"
    /\ status = 200
    /\ handlerUser = 2
    /\ ran = <<"logger", "recovery", "ratelimit", "cors", "auth", "handler">>

\* C14: a header that does not consist of the word Bearer, one space and
\* a rest without a space (no header, another scheme, a bare token, more
\* than one space) is answered 401 as missing or malformed, and the token
\* parser is not called.
C14_MalformedHeader ==
    LET h == authHeader
        spaces == Cardinality({i \in 1..Len(h) : h[i] = SP})
        wellFormed == spaces = 1 /\ Len(h) >= 2 /\ h[1] = Bearer /\ h[2] = SP
    IN (Ran("auth") /\ ~wellFormed)
       => /\ hpc = "done"
          /\ status = 401
          /\ body \in {"authorization header is required",
                       "invalid authorization header format"}
          /\ ~parsed
          /\ ~ctx.exists
          /\ ~Ran("handler")

\* a valid token of the configured secret, sent after "Bearer" and two
\* spaces, was rejected as malformed
C14_Witness ==
    /\ Ran("auth")
    /\ issued # NoToken
    /\ issued.secret = secret /\ issued.userID # 0
    /\ authHeader = <<Bearer, SP, SP, issued.token>>
    /\ clock < issued.token.payload.exp
    /\ status = 401
    /\ body = "invalid authorization header format"

\* C15: a token made by CreateTestToken(P, S) with P # 0 and sent as
\* "Bearer <token>" before its expiry is accepted with principal P when
\* the configured secret is S, and answered 401 "invalid or expired
\* token" when the configured secret differs from S.
C15_TokenRoundTrip ==
    (/\ Ran("auth")
     /\ issued # NoToken
     /\ issued.userID # 0
     /\ authHeader = <<Bearer, SP, issued.token>>
     /\ clock < issued.token.payload.exp)
    => IF issued.secret = secret
       THEN /\ ctx = [exists |-> TRUE, value |-> issued.userID]
            /\ status # 401
            /\ hpc = "done" => Ran("handler")
       ELSE /\ hpc = "done" /\ status = 401
            /\ body = "invalid or expired token"
            /\ ~ctx.exists

\* a token made at a time that is not a whole second, for principal 2
\* under the configured secret, was accepted later
C15_Witness ==
    /\ hpc = "handler"
    /\ issued # NoToken
    /\ issued.userID = 2
    /\ issued.secret = secret
    /\ issued.at % TicksPerSecond # 0
    /\ clock > issued.at
    /\ authHeader = <<Bearer, SP, issued.token>>
    /\ ctx = [exists |-> TRUE, value |-> 2]

\* C16: a token that verifies under the configured secret and whose time
\* claims hold, but whose user_id claim is absent or 0, is answered 401
\* "user_id not found in token", and no principal is stored.
C16_MissingPrincipal ==
    (/\ Ran("auth")
     /\ BearerToken(authHeader)
     /\ Verifies(authHeader[3])
     /\ ("user_id" \in DOMAIN authHeader[3].payload
         => authHeader[3].payload.user_id = 0))
    => /\ hpc = "done"
       /\ status = 401
       /\ body = "user_id not found in token"
       /\ ~ctx.exists
       /\ ~Ran("handler")

\* a verified token without a user_id claim was rejected
C16_Witness ==
    /\ hpc = "done"
    /\ BearerToken(authHeader)
    /\ Verifies(authHeader[3])
    /\ "user_id" \notin DOMAIN authHeader[3].payload
    /\ status = 401
    /\ body = "user_id not found in token"

\* ------------------------------------------------ claims: article service
\* caller p starts a call in this step, and caller p gets its result
Starts(p) == call[p].pc = "idle" /\ call'[p].pc # "idle"
Ends(p) == call[p].pc # "done" /\ call'[p].pc = "done"
Stored(id) == id \in ArticleIDs /\ articles[id] # NoArticle

\* C17: an update or delete of an existing article is refused as
\* forbidden iff the caller's principal differs from the article's
\* owner, and every step that changes or deletes a stored article is a
\* step of an update or delete call made by its owner.
C17_OwnershipRule ==
    [][/\ \A p \in Callers :
            (/\ Starts(p)
             /\ call'[p].op \in {"update", "delete"}
             /\ Stored(call'[p].id))
            => (call'[p].err = ErrForbidden
                <=> articles[call'[p].id].UserID # call'[p].userID)
       /\ \A id \in ArticleIDs :
            (articles[id] # NoArticle /\ articles'[id] # articles[id])
            => \E p \in Callers :
                 /\ call'[p] # call[p]
                 /\ call'[p].op \in {"update", "delete"}
                 /\ call'[p].id = id
                 /\ call'[p].userID = articles[id].UserID]_vars

\* one caller was refused the update of an article it does not own while
\* the owner's update of the same article has changed its title
C17_Witness ==
    \E p, q \in Callers :
        /\ call[p].pc = "done" /\ call[p].op = "update"
        /\ call[p].err = ErrForbidden
        /\ call[q].pc = "done" /\ call[q].op = "update"
        /\ call[q].err = NoErr
        /\ call[q].id = call[p].id
        /\ Stored(call[q].id)
        /\ articles[call[q].id].UserID = call[q].userID
        /\ articles[call[q].id].Title = <<"b">>

\* C18: an update or delete of an id that has no stored article fails
\* with ErrNotFound, answered 404, whoever the caller is; an update or
\* delete of a stored article by a principal that is not its owner fails
\* with ErrForbidden, answered 403.
C18_ForbiddenNotNotFound ==
    [][\A p \in Callers :
         (Starts(p) /\ call'[p].op \in {"update", "delete"})
         => /\ ~Stored(call'[p].id)
               => /\ call'[p].pc = "done"
                  /\ call'[p].err = ErrNotFound
                  /\ HandleError(call'[p].err) = {404}
            /\ (/\ Stored(call'[p].id)
                /\ articles[call'[p].id].UserID # call'[p].userID)
               => /\ call'[p].pc = "done"
                  /\ call'[p].err = ErrForbidden
                  /\ HandleError(call'[p].err) = {403}]_vars

\* a delete of a stored article by another principal was refused as
\* forbidden, and a delete of an absent id failed as not found
C18_Witness ==
    \E p, q \in Callers :
        /\ call[p].pc = "done" /\ call[p].op = "delete"
        /\ call[p].err = ErrForbidden
        /\ Stored(call[p].id)
        /\ call[q].pc = "done" /\ call[q].op = "delete"
        /\ call[q].err = ErrNotFound
        /\ ~Stored(call[q].id)

\* C19: a step in which an update or delete call fails (not found,
\* forbidden, validation) leaves every stored article as it was.
C19_FailedCallChangesNothing ==
    [][\A p \in Callers :
         (/\ Ends(p)
          /\ call'[p].op \in {"update", "delete"}
          /\ call'[p].err # NoErr)
         => articles' = articles]_vars

\* C20: a get, update or delete that starts on an id whose delete has
\* succeeded, or on an id that was never created, fails with ErrNotFound
\* (a second delete is an error), and a deleted id stays without article.
C20_DeletedStaysGone ==
    [][/\ \A p \in Callers :
            (/\ Starts(p)
             /\ call'[p].op \in {"get", "update", "delete"}
             /\ (call'[p].id \in deleted \/ call'[p].id >= nextID))
            => (call'[p].pc = "done" /\ call'[p].err = ErrNotFound)
       /\ \A id \in deleted' : articles'[id] = NoArticle]_vars

\* the owner's second delete of an article has failed as not found
C20_Witness ==
    \E p \in Callers :
        /\ call[p].pc = "done" /\ call[p].op = "delete"
        /\ call[p].id \in deleted
        /\ call[p].err = ErrNotFound
        /\ call[p].userID = 1


\* C21: a CreateArticle call with userID 0, an empty title, a title longer
\* than the maximum or an empty content fails with a validation error and
\* stores nothing; any other call stores exactly one new article, with
\* the given title, content and owner, and returns it.
C21_CreateValidation ==
    [][\A p \in Callers :
         (Starts(p) /\ call'[p].op = "create")
         => LET c == call'[p]
                bad == \/ c.userID = 0
                       \/ c.title = <<>>
                       \/ Len(c.title) > MaxTitleLength
                       \/ c.content = <<>>
            IN /\ c.pc = "done"
               /\ bad => /\ "ErrValidation" \in c.err
                         /\ articles' = articles
               /\ ~bad => /\ c.err = NoErr
                          /\ ~Stored(c.id)
                          /\ c.id \in ArticleIDs
                          /\ articles' =
                               [articles EXCEPT ![c.id] =
                                  [UserID |-> c.userID, Title |-> c.title,
                                   Content |-> c.content]]
                          /\ c.found /\ c.owner = c.userID]_vars

\* a call with a title that is too long was refused while an article
\* created by an earlier call is stored
C21_Witness ==
    \E p \in Callers, id \in ArticleIDs :
        /\ call[p].pc = "done" /\ call[p].op = "create"
        /\ call[p].userID # 0 /\ call[p].content # <<>>
        /\ Len(call[p].title) > MaxTitleLength
        /\ "ErrValidation" \in call[p].err
        /\ Stored(id)

\* C22: GetAllArticles uses the default page for a page below 1 and the
\* default limit for a limit below 1, never hands the repository a limit
\* above the maximum and never returns more articles than that limit
\* (so never more than the maximum), returns the rows of the page it
\* used, and returns as total the number of articles stored when the
\* repository counts them.
C22_PaginationNormalised ==
    [][\A p \in Callers :
         LET c == call'[p] IN
         /\ (Starts(p) /\ c.op = "list")
            => /\ c.list.page < 1 => c.list.repoPage = DefaultPage
               /\ c.list.page >= 1 => c.list.repoPage = c.list.page
               /\ c.list.limit < 1 => c.list.repoLimit = DefaultLimit
               /\ c.list.limit \in 1..MaxLimit
                  => c.list.repoLimit = c.list.limit
               /\ c.list.repoLimit \in 1..MaxLimit
               /\ c.list.total = Count(articles)
               /\ c.err = NoErr
         /\ (Ends(p) /\ c.op = "list")
            => LET n == Len(c.list.items)
                   offset == (c.list.repoPage - 1) * c.list.repoLimit
                   rest == IF Count(articles) > offset
                           THEN Count(articles) - offset ELSE 0
               IN /\ n <= MaxLimit
                  /\ n = Min(c.list.repoLimit, rest)
                  /\ \A i \in 1..n : Stored(c.list.items[i])
                  /\ \A i, j \in 1..n :
                        c.list.items[i] = c.list.items[j] => i = j]_vars

\* a list call with page 0 and a limit above the maximum returned the
\* first page of default size, fewer articles than are stored
C22_Witness ==
    \E p \in Callers :
        /\ call[p].pc = "done" /\ call[p].op = "list"
        /\ call[p].list.page < 1 /\ call[p].list.limit > MaxLimit
        /\ Len(call[p].list.items) = DefaultLimit
        /\ call[p].list.total > DefaultLimit
        /\ call[p].list.total = Count(articles)

\* C26: UpdateArticle checks existence first, ownership second and the
\* fields last: for an id that is not stored it fails with ErrNotFound
\* whatever the principal and the fields; for a stored article of another
\* principal it fails with ErrForbidden whatever the title and content,
\* invalid or absent ones included; only the owner's call gets a
\* validation error for its fields.
C26_UpdateErrorPrecedence ==
    [][\A p \in Callers :
         (Starts(p) /\ call'[p].op = "update")
         => LET c == call'[p]
                invalid == \/ /\ c.title # NilPtr
                              /\ \/ c.title[1] = <<>>
                                 \/ Len(c.title[1]) > MaxTitleLength
                           \/ c.content # NilPtr /\ c.content[1] = <<>>
                           \/ c.title = NilPtr /\ c.content = NilPtr
            IN /\ ~Stored(c.id)
                  => c.pc = "done" /\ c.err = ErrNotFound
               /\ (Stored(c.id) /\ articles[c.id].UserID # c.userID)
                  => c.pc = "done" /\ c.err = ErrForbidden
               /\ (/\ Stored(c.id)
                   /\ articles[c.id].UserID = c.userID
                   /\ invalid)
                  => c.pc = "done" /\ c.err = ErrValidation
               /\ (/\ Stored(c.id)
                   /\ articles[c.id].UserID = c.userID
                   /\ ~invalid)
                  => c.pc = "write" /\ c.err = NoErr]_vars

\* an update of a stored article by another principal, with an empty or
\* over-long title and no content, was refused as forbidden
C26_Witness ==
    \E p \in Callers :
        /\ call[p].pc = "done" /\ call[p].op = "update"
        /\ Stored(call[p].id)
        /\ articles[call[p].id].UserID # call[p].userID
        /\ call[p].title # NilPtr
        /\ \/ call[p].title[1] = <<>>
           \/ Len(call[p].title[1]) > MaxTitleLength
        /\ call[p].content = NilPtr
        /\ call[p].err = ErrForbidden

\* C29: the owner of a stored article never changes: a step that stores
\* an article under a new id is a CreateArticle call and gives it the
\* userID of that call, and every step leaves the UserID of every article
\* that stays stored as it was (ids are not reused).
C29_OwnerImmutable ==
    [][\A id \in ArticleIDs :
         /\ (Stored(id) /\ articles'[id] # NoArticle)
            => articles'[id].UserID = articles[id].UserID
         /\ (~Stored(id) /\ articles'[id] # NoArticle)
            => /\ id >= nextID /\ nextID' > id
               /\ \E p \in Callers :
                    /\ Starts(p) /\ call'[p].op = "create"
                    /\ call'[p].id = id
                    /\ articles'[id].UserID = call'[p].userID]_vars

\* an update by the owner has changed the title of a stored article, which
\* still has its owner
C29_Witness ==
    \E p \in Callers :
        /\ call[p].pc = "done" /\ call[p].op = "update"
        /\ call[p].err = NoErr
        /\ Stored(call[p].id)
        /\ articles[call[p].id].Title = <<"b">>
        /\ articles[call[p].id].UserID = call[p].userID

\* C30: in every list response the limit reported in meta is the limit
\* the service handed to the repository, data holds at most that many
\* items, and total_pages is the total divided by that limit, rounded up.
C30_ListResponseConsistent ==
    meta # NoMeta
    => /\ meta.limit = meta.repoLimit
       /\ Len(meta.data) <= meta.limit
       /\ meta.total_pages = TotalPages(meta.total, meta.repoLimit)

\* ------------------------------------------- claims: locks and rates
\* C23: a getLimiter call that finds its key under the read lock returns
\* the bucket without ever taking the write lock; a worker enters the read
\* section whenever no writer holds the lock, however many readers are in
\* it; and a writer (a creation or the sweep) takes the lock only when no
\* reader and no other writer holds it, so that no reader is in the read
\* section while a writer holds the lock.
C23_ReadersShareWritersExclude ==
    [][/\ smu'.writer # None => smu'.readers = {}
       /\ \A p \in Procs :
            /\ (pc[p] = "rlocked" /\ pc'[p] # "rlocked"
                /\ limiters[ip[p]] # NoBucket)
               => /\ pc'[p] = "allow"
                  /\ limiter'[p] = limiters[ip[p]]
                  /\ smu'.writer = smu.writer
            /\ (pc[p] = "idle" /\ pc'[p] = "rlocked")
               => /\ smu.writer = None
                  /\ smu'.readers = smu.readers \cup {p}
            /\ (pc[p] = "wlock" /\ pc'[p] # "wlock")
               => smu.writer = None /\ smu.readers = {}
       /\ (smu.writer # Sweeper /\ smu'.writer = Sweeper)
          => smu.writer = None /\ smu.readers = {}]_vars

\* two workers are in the read section at once, each looking up a key
\* that has a bucket
C23_Witness ==
    \E p, q \in Procs :
        /\ p # q
        /\ {p, q} \subseteq smu.readers
        /\ pc[p] = "rlocked" /\ pc[q] = "rlocked"
        /\ limiters[ip[p]] # NoBucket
        /\ limiters[ip[q]] # NoBucket

\* C25: the last-refill timestamp of a bucket never decreases, and the
\* tokens its calls have added never exceed one per interval of the time
\* between its creation and its last-refill timestamp: no span of time
\* is credited twice.
C25_RefillMonotonic ==
    [][\A b \in Buckets :
         /\ lastRefillTime'[b] >= lastRefillTime[b]
         /\ b < nextBucket'
            => /\ lastRefillTime'[b] >= createTime'[b]
               /\ lastRefillTime'[b] <= clock'
               /\ refilled'[b] * RateLimitRefill
                     <= lastRefillTime'[b] - createTime'[b]]_vars

\* a bucket has been refilled after its creation and has decided a later
\* call without a refill
C25_Witness ==
    \E b \in Buckets :
        /\ b < nextBucket
        /\ refilled[b] >= 1
        /\ lastRefillTime[b] > createTime[b]
        /\ lastRefillTime[b] < clock
        /\ lastAccessTime[b] = clock

\* the calls a set of buckets has allowed at the times from t1 to t2
RECURSIVE AdmittedIn(_, _, _)
AdmittedIn(bs, t1, t2) ==
    IF bs = {} \/ t1 > t2 THEN 0
    ELSE LET b == CHOOSE x \in bs : TRUE IN
         IF bs = {b}
         THEN admitted[b][t1] + AdmittedIn(bs, t1 + 1, t2)
         ELSE AdmittedIn({b}, t1, t2) + AdmittedIn(bs \ {b}, t1, t2)

\* capacity + floor(T / interval) + 1
RateBound(T) == RateLimitTokens + (T \div RateLimitRefill) + 1

\* C27: the calls one bucket allows within any window of length T are at
\* most capacity + floor(T / interval) + 1.
C27_BucketRateBound ==
    \A b \in Buckets : \A t1, t2 \in 0..MaxTime :
        t1 <= t2 => AdmittedIn({b}, t1, t2) <= RateBound(t2 - t1)

\* a bucket has allowed exactly capacity + floor(T / interval) + 1 calls
\* within a window of length T
C27_Witness ==
    \E b \in Buckets : \E t1, t2 \in 0..MaxTime :
        /\ t1 < t2
        /\ admitted[b][t1] > 0 /\ admitted[b][t2] > 0
        /\ AdmittedIn({b}, t1, t2) = RateBound(t2 - t1)

\* C28: the requests of one client address admitted within any window of
\* length T, by whichever buckets the address has had, are at most
\* capacity + floor(T / interval) + 1.
C28_ClientRateBound ==
    \A k \in Keys : \A t1, t2 \in 0..MaxTime :
        t1 <= t2
        => AdmittedIn({b \in Created : bucketKey[b] = k}, t1, t2)
             <= RateBound(t2 - t1)

\* C24: under fair scheduling every request that has entered getLimiter
\* gets its bucket, every allow() call returns and every sweep that has
\* taken the registry lock releases it, whatever the interleaving: no
\* worker and no sweep waits for ever for a lock.
C24_EveryCallReturns ==
    /\ \A p \in Procs :
         /\ (pc[p] \in {"rlocked", "wlock"}) ~> (pc[p] = "allow")
         /\ (pc[p] = "allow") ~> (pc[p] = "idle")
    /\ (spc = "scan") ~> (spc = "wait")

\* the sweep holds the registry lock and has to wait for the mutex of a
\* bucket that is inside allow(), while another worker waits for the
\* registry lock
C24_Witness ==
    /\ spc = "scan"
    /\ \E p, q \in Procs, k \in sweepTodo :
         /\ pc[p] = "wlock"
         /\ pc[q] = "consume"
         /\ limiter[q] = limiters[k]

====
